---- MODULE Spec2Model ----
(***************************************************************************)
(* F1 MCP Server: the HTTP fetcher (make_jolpica_request), the career      *)
(* standings aggregator (get_driver_career_standings) and the tool         *)
(* handlers that call them, as a state machine of one invocation.          *)
(*                                                                         *)
(* JSON values are tagged records [t, v]; a raised Python exception is a   *)
(* record [t |-> "exc", cls, msg]. A JSON string is a sequence of tokens   *)
(* (substring test = a token of it), an endpoint and a URL are sequences   *)
(* of tokens in which "/" is a token of its own.                           *)
(***************************************************************************)
EXTENDS Integers, Sequences, FiniteSets, TLC

VARIABLES
    call,       \* the invocation: the function called and its arguments
    clock,      \* what datetime.now() reports: the year and the date
    pc,         \* position of the invoked function
    net,        \* "idle", or "inflight" while a request awaits its answer
    requests,   \* the URLs requested so far, in order
    upstream,   \* the last answer of the upstream
    loc,        \* local variables of the invoked handler
    agg,        \* the frame of get_driver_career_standings
    found,      \* history: the probed years whose answer carried standings, with them
    result      \* what the invocation returned

vars == <<call, clock, pc, net, requests, upstream, loc, agg, found, result>>

(***************************************************************************)
(* JSON values and the Python operations the code applies to them          *)
(***************************************************************************)
JNull == [t |-> "null"]
JNum(n) == [t |-> "num", v |-> n]
JStr(s) == [t |-> "str", v |-> s]
JList(q) == [t |-> "list", v |-> q]
JDict(f) == [t |-> "dict", v |-> f]
EmptyDict == JDict(<<>>)

\* Python's None as a return value of the code (not a JSON value received)
None == [t |-> "None"]

\* an exception of class cls whose str() is text
Raise(cls, text) == [t |-> "exc", cls |-> cls, msg |-> [text |-> text]]
IsExc(x) == x.t = "exc"

\* mutant: None passes a truth test
Truthy_of_None(x) ==
    CASE x.t = "None" -> TRUE
      [] x.t = "null" -> FALSE
      [] x.t = "num" -> x.v # 0
      [] x.t \in {"str", "list"} -> Len(x.v) > 0
      [] x.t = "dict" -> DOMAIN x.v # {}

\* bool(x): None, 0, "", [] and {} are falsy
Truthy(x) ==
    CASE x.t \in {"null", "None"} -> FALSE
      [] x.t = "num" -> x.v # 0
      [] x.t \in {"str", "list"} -> Len(x.v) > 0
      [] x.t = "dict" -> DOMAIN x.v # {}

\* `k in x` raises TypeError when x is None or a number
ContainsRaises(x) == x.t \in {"null", "None", "num"}

\* `k in x` for a string key k: dict key, list element, substring
Contains(x, k) ==
    CASE x.t = "dict" -> k \in DOMAIN x.v
      [] x.t = "list" -> \E i \in 1..Len(x.v) : x.v[i] = JStr(<<k>>)
      [] x.t = "str" -> \E i \in 1..Len(x.v) : x.v[i] = k
      [] OTHER -> FALSE

PyIn(x, k) ==
    IF ContainsRaises(x)
    THEN Raise("TypeError", "argument is not iterable")
    ELSE IF Contains(x, k) THEN JNum(1) ELSE JNum(0)

\* x[k] for a string key k
Subscript(x, k) ==
    CASE x.t = "dict" ->
           IF k \in DOMAIN x.v THEN x.v[k] ELSE Raise("KeyError", k)
      [] x.t \in {"list", "str"} -> Raise("TypeError", "indices must be integers")
      [] OTHER -> Raise("TypeError", "object is not subscriptable")

\* x.get(k, d)
Get(x, k, d) ==
    IF x.t = "dict"
    THEN IF k \in DOMAIN x.v THEN x.v[k] ELSE d
    ELSE Raise("AttributeError", "object has no attribute 'get'")

\* x[0]
First(x) ==
    CASE x.t = "list" ->
           IF Len(x.v) > 0 THEN x.v[1] ELSE Raise("IndexError", "list index out of range")
      [] x.t = "str" ->
           IF Len(x.v) > 0 THEN JStr(<<x.v[1]>>) ELSE Raise("IndexError", "string index out of range")
      [] x.t = "dict" -> Raise("KeyError", "0")
      [] OTHER -> Raise("TypeError", "object is not subscriptable")

(***************************************************************************)
(* make_jolpica_request                                                    *)
(***************************************************************************)
JOLPICA_BASE_URL == "https://api.jolpi.ca/ergast/f1"
INTERNAL_ERROR == "INTERNAL_ERROR"

\* mutant: one leading slash is removed
LStrip_one(e) == IF e # <<>> /\ Head(e) = "/" THEN Tail(e) ELSE e

RECURSIVE LStrip(_)
\* endpoint.lstrip('/')
LStrip(e) == IF e # <<>> /\ Head(e) = "/" THEN LStrip(Tail(e)) ELSE e

\* f"{JOLPICA_BASE_URL}/{endpoint.lstrip('/')}.json"
BuildURL(endpoint) == <<JOLPICA_BASE_URL, "/">> \o LStrip(endpoint) \o <<".json">>

\* httpx.RequestError and the transport failures below it
RequestErrors == {"ConnectError", "ConnectTimeout", "ReadTimeout"}

\* client.get(url) under timeout=30.0: the response, or a transport failure
ClientGet(r) ==
    CASE r.k = "transport" -> Raise(r.why, r.why)
      [] r.k = "unexpected" -> Raise(r.why, r.why)
      [] r.k = "http" -> [t |-> "response", status |-> r.status, text |-> r.body]

\* mutant: only 4xx and 5xx raise
RaiseForStatus_errors_only(resp) ==
    IF resp.status < 400
    THEN None
    ELSE [t |-> "exc", cls |-> "HTTPStatusError",
          msg |-> [status |-> resp.status, text |-> resp.text]]

\* response.raise_for_status(): HTTPStatusError unless the status is 2xx
RaiseForStatus(resp) ==
    IF resp.status >= 200 /\ resp.status < 300
    THEN None
    ELSE [t |-> "exc", cls |-> "HTTPStatusError",
          msg |-> [status |-> resp.status, text |-> resp.text]]

\* mutant: a body that is not JSON parses to null
ResponseJson_lenient(resp) ==
    IF resp.text.raw = "json" THEN resp.text.val ELSE JNull

\* response.json()
ResponseJson(resp) ==
    IF resp.text.raw = "json" THEN resp.text.val
    ELSE Raise("JSONDecodeError", "Expecting value")

LoggedTables == <<"DriverTable", "RaceTable", "StandingsTable">>
LoggedItems == <<"Drivers", "Races", "StandingsLists">>

\* the counts logged for one table: the inner loop over item keys
TableCounts(table_key, table_data) ==
    IF table_data.t = "dict"
    THEN { <<table_key, LoggedItems[i], Len(table_data.v[LoggedItems[i]].v)>> :
             i \in { j \in 1..Len(LoggedItems) :
                       /\ LoggedItems[j] \in DOMAIN table_data.v
                       /\ table_data.v[LoggedItems[j]].t = "list" } }
    ELSE {}

RECURSIVE LogTables(_, _, _)
\* the loop over table keys: `table_key in mr_data`, then mr_data[table_key]
LogTables(mr_data, i, logged) ==
    IF i > Len(LoggedTables) THEN [t |-> "logged", lines |-> logged]
    ELSE LET table_key == LoggedTables[i]
             has == PyIn(mr_data, table_key)
         IN  IF IsExc(has) THEN has
             ELSE IF ~Truthy(has) THEN LogTables(mr_data, i + 1, logged)
             ELSE LET table_data == Subscript(mr_data, table_key)
                  IN  IF IsExc(table_data) THEN table_data
                      ELSE LogTables(mr_data, i + 1,
                                     logged \cup TableCounts(table_key, table_data))

\* the logging of the envelope summary between response.json() and the return
LogSummary(json_data) ==
    IF json_data.t = "dict" /\ "MRData" \in DOMAIN json_data.v
    THEN LogTables(json_data.v["MRData"], 1, {})
    ELSE [t |-> "logged", lines |-> {}]

\* the body of the try block: the value returned or the exception raised
RequestBody(endpoint, r) ==
    LET resp == ClientGet(r)
    IN  IF IsExc(resp) THEN resp
        ELSE LET st == RaiseForStatus(resp)
             IN  IF IsExc(st) THEN st
                 ELSE LET json_data == ResponseJson(resp)
                      IN  IF IsExc(json_data) THEN json_data
                          ELSE LET lg == LogSummary(json_data)
                               IN  IF IsExc(lg) THEN lg ELSE json_data

McpError(code, message) == [t |-> "exc", cls |-> "McpError", code |-> code, msg |-> message]

\* mutant: no catch-all clause
RequestExcept_no_catch_all(e) ==
    IF e.cls = "HTTPStatusError"
    THEN McpError(INTERNAL_ERROR,
                  [prefix |-> "Jolpica F1 API HTTP error", status |-> e.msg.status, text |-> e.msg.text])
    ELSE IF e.cls \in RequestErrors
    THEN McpError(INTERNAL_ERROR,
                  [prefix |-> "Jolpica F1 API network error", detail |-> e.msg.text])
    ELSE IF e.cls = "JSONDecodeError"
    THEN McpError(INTERNAL_ERROR,
                  [prefix |-> "Invalid JSON response from Jolpica F1 API", detail |-> e.msg.text])
    ELSE e

\* mutant: timeouts are not handled by the RequestError clause
RequestExcept_timeouts_unknown(e) ==
    IF e.cls = "HTTPStatusError"
    THEN McpError(INTERNAL_ERROR,
                  [prefix |-> "Jolpica F1 API HTTP error", status |-> e.msg.status, text |-> e.msg.text])
    ELSE IF e.cls = "ConnectError"
    THEN McpError(INTERNAL_ERROR,
                  [prefix |-> "Jolpica F1 API network error", detail |-> e.msg.text])
    ELSE IF e.cls = "JSONDecodeError"
    THEN McpError(INTERNAL_ERROR,
                  [prefix |-> "Invalid JSON response from Jolpica F1 API", detail |-> e.msg.text])
    ELSE McpError(INTERNAL_ERROR,
                  [prefix |-> "Jolpica F1 API unexpected error", detail |-> e.msg.text])

\* the except clauses, in the order of the source
RequestExcept(e) ==
    IF e.cls = "HTTPStatusError"
    THEN McpError(INTERNAL_ERROR,
                  [prefix |-> "Jolpica F1 API HTTP error", status |-> e.msg.status, text |-> e.msg.text])
    ELSE IF e.cls \in RequestErrors
    THEN McpError(INTERNAL_ERROR,
                  [prefix |-> "Jolpica F1 API network error", detail |-> e.msg.text])
    ELSE IF e.cls = "JSONDecodeError"
    THEN McpError(INTERNAL_ERROR,
                  [prefix |-> "Invalid JSON response from Jolpica F1 API", detail |-> e.msg.text])
    ELSE McpError(INTERNAL_ERROR,
                  [prefix |-> "Jolpica F1 API unexpected error", detail |-> e.msg.text])

\* make_jolpica_request(endpoint) when the upstream answers r
make_jolpica_request(endpoint, r) ==
    LET b == RequestBody(endpoint, r)
    IN  IF IsExc(b) THEN RequestExcept(b) ELSE b

(***************************************************************************)
(* What the upstream can answer                                            *)
(***************************************************************************)
NoResponse == [k |-> "none"]

StatusCodes == {200, 201, 302, 404, 500}

TransportFailures ==
    { [k |-> "transport", why |-> w] : w \in RequestErrors }

UnexpectedFailures == { [k |-> "unexpected", why |-> "InvalidURL"] }

JsonBody(j) == [raw |-> "json", val |-> j]
HtmlBody == [raw |-> "html"]

Http(status, body) == [k |-> "http", status |-> status, body |-> body]

TableKeys == {"DriverTable", "RaceTable", "StandingsTable", "StatusTable"}

ItemKey(table_key) ==
    CASE table_key = "DriverTable" -> "Drivers"
      [] table_key = "RaceTable" -> "Races"
      [] table_key = "StandingsTable" -> "StandingsLists"
      [] table_key = "StatusTable" -> "Status"

\* shapes of an item list
ItemShapes ==
    {JNull, JNum(3), JList(<<>>), JList(<<EmptyDict>>), JList(<<EmptyDict, EmptyDict>>)}

\* shapes of a table
TableShapes(table_key) ==
    {JNull, JStr(<<ItemKey(table_key)>>), EmptyDict}
      \cup { JDict(ItemKey(table_key) :> x) : x \in ItemShapes }

\* shapes of the MRData container
MRDataShapes ==
    {JNull, JNum(7), JStr(<<>>), JStr(<<"RaceTable">>), JList(<<>>),
     JList(<<JStr(<<"RaceTable">>)>>), EmptyDict}
      \cup UNION { { JDict(k :> x) : x \in TableShapes(k) } : k \in TableKeys }

\* shapes of the parsed body
EnvelopeShapes ==
    {JNull, JNum(0), JStr(<<"MRData">>), JList(<<>>), JList(<<JStr(<<"MRData">>)>>),
     EmptyDict, JDict("Other" :> JNull)}
      \cup { JDict("MRData" :> m) : m \in MRDataShapes }

FetchBodies == {HtmlBody} \cup { JsonBody(j) : j \in EnvelopeShapes }

FetchResponses ==
    TransportFailures \cup UnexpectedFailures
      \cup { Http(s, b) : s \in StatusCodes, b \in FetchBodies }

\* the most leading slashes an endpoint is called with
MaxSlashes == 2

\* the endpoints of a direct call: a fragment behind 0..MaxSlashes slashes
FetchEndpoints ==
    LET Fragments ==
            { <<"current">>, <<"2021", "/", "1", "/", "results">>, <<"drivers", "/", "hamilton">> }
    IN  { [i \in 1..k |-> "/"] \o f : k \in 0..MaxSlashes, f \in Fragments }

(***************************************************************************)
(* A direct call of make_jolpica_request                                   *)
(***************************************************************************)
NoLocals == [none |-> TRUE]
Pending == [t |-> "pending"]
AggIdle == [pc |-> "idle"]
\* datetime.now(): the calendar year and the ISO date
Clocks ==
    { [year |-> 2025, today |-> "2025-06-15"],
      [year |-> 2026, today |-> "2026-01-01"] }

InitFetch ==
    /\ call \in { [fn |-> "make_jolpica_request", endpoint |-> e] : e \in FetchEndpoints }
    /\ clock \in Clocks
    /\ agg = AggIdle
    /\ found = <<>>
    /\ pc = "start"
    /\ net = "idle"
    /\ requests = <<>>
    /\ upstream = NoResponse
    /\ loc = NoLocals
    /\ result = Pending

\* client.get(url) is issued
FetchSend ==
    /\ call.fn = "make_jolpica_request"
    /\ pc = "start"
    /\ net = "idle"
    /\ net' = "inflight"
    /\ requests' = Append(requests, BuildURL(call.endpoint))
    /\ pc' = "await"
    /\ UNCHANGED <<call, clock, upstream, loc, agg, found, result>>

\* the upstream answers (or the transport fails) and the call ends
FetchComplete ==
    /\ call.fn = "make_jolpica_request"
    /\ pc = "await"
    /\ net = "inflight"
    /\ \E r \in FetchResponses :
         /\ upstream' = r
         /\ result' = make_jolpica_request(call.endpoint, r)
    /\ net' = "idle"
    /\ pc' = "done"
    /\ UNCHANGED <<call, clock, requests, loc, agg, found>>

NextFetch == FetchSend \/ FetchComplete

SpecFetch == InitFetch /\ [][NextFetch]_vars

(***************************************************************************)
(* get_driver_career_standings                                             *)
(***************************************************************************)
\* range(current_year, current_year - 10, -1)
WindowYears == 10

DriverIds == {"hamilton", "verstappen"}

\* f"{year}/drivers/{driver_id}/driverStandings"
CareerEndpoint(year, driver_id) ==
    <<ToString(year), "/", "drivers", "/", driver_id, "/", "driverStandings">>

\* mutant: the scan starts one year late
AggStart_from_last_year(driver_id, now_year) ==
    [pc |-> "loop", driver_id |-> driver_id, current_year |-> now_year,
     year |-> now_year - 1, recent_standings |-> <<>>]

\* mutant: a second call in one invocation returns what the first call returned
AggStart_cached(driver_id, now_year) ==
    IF "standings1" \in DOMAIN loc
    THEN [pc |-> "done", ret |-> loc["standings1"]]
    ELSE [pc |-> "loop", driver_id |-> driver_id, current_year |-> now_year,
          year |-> now_year, recent_standings |-> <<>>]

\* the frame at the top of the loop: current_year, the loop variable, the accumulator
AggStart(driver_id, now_year) ==
    [pc |-> "loop", driver_id |-> driver_id, current_year |-> now_year,
     year |-> now_year, recent_standings |-> <<>>]

\* mutant: the year's items are put in front
Extend_in_front(recent, x) ==
    CASE x.t = "list" -> [t |-> "ok", recent |-> x.v \o recent]
      [] x.t = "str" -> [t |-> "ok", recent |-> [i \in 1..Len(x.v) |-> JStr(<<x.v[i]>>)] \o recent]
      [] OTHER -> Raise("TypeError", "object is not iterable")

\* recent_standings.extend(x): the items of a list, the characters of a string
Extend(recent, x) ==
    CASE x.t = "list" -> [t |-> "ok", recent |-> recent \o x.v]
      [] x.t = "str" -> [t |-> "ok", recent |-> recent \o [i \in 1..Len(x.v) |-> JStr(<<x.v[i]>>)]]
      [] OTHER -> Raise("TypeError", "object is not iterable")

\* the body of the inner try, after the fetch returned year_data or raised
CareerTry(recent, year_data) ==
    IF IsExc(year_data) THEN year_data
    ELSE IF ~Truthy(year_data) THEN [t |-> "ok", recent |-> recent]
    ELSE LET has == PyIn(year_data, "MRData")
         IN  IF IsExc(has) THEN has
             ELSE IF ~Truthy(has) THEN [t |-> "ok", recent |-> recent]
             ELSE LET mr == Subscript(year_data, "MRData")
                  IN  IF IsExc(mr) THEN mr
                      ELSE LET standings_table == Get(mr, "StandingsTable", EmptyDict)
                           IN  IF IsExc(standings_table) THEN standings_table
                               ELSE LET standings_lists ==
                                            Get(standings_table, "StandingsLists", JList(<<>>))
                                    IN  IF IsExc(standings_lists) THEN standings_lists
                                        ELSE IF Truthy(standings_lists)
                                        THEN Extend(recent, standings_lists)
                                        ELSE [t |-> "ok", recent |-> recent]

\* mutant: no inner try, the outer except ends the scan with None
CareerIteration_outer_except(a, year_data) ==
    LET b == CareerTry(a.recent_standings, year_data)
    IN  IF IsExc(b)
        THEN [pc |-> "done", ret |-> None]
        ELSE [a EXCEPT !.pc = "loop", !.year = @ - 1, !.recent_standings = b.recent]

\* mutant: no try at all, the exception leaves the function
CareerIteration_no_try(a, year_data) ==
    LET b == CareerTry(a.recent_standings, year_data)
    IN  IF IsExc(b)
        THEN [pc |-> "done", ret |-> b]
        ELSE [a EXCEPT !.pc = "loop", !.year = @ - 1, !.recent_standings = b.recent]

\* mutant: after a failed fetch the call awaits the answer of that year again
CareerIteration_awaits_again(a, year_data) ==
    LET b == CareerTry(a.recent_standings, year_data)
    IN  IF IsExc(b)
        THEN [a EXCEPT !.pc = "await"]
        ELSE [a EXCEPT !.pc = "loop", !.year = @ - 1, !.recent_standings = b.recent]

\* one iteration of the loop: `except Exception: continue` skips the year
CareerIteration(a, year_data) ==
    LET b == CareerTry(a.recent_standings, year_data)
    IN  IF IsExc(b)
        THEN [a EXCEPT !.pc = "loop", !.year = @ - 1]
        ELSE [a EXCEPT !.pc = "loop", !.year = @ - 1, !.recent_standings = b.recent]

StandingsEnvelope(lists) ==
    JDict("MRData" :> JDict("StandingsTable" :> JDict("StandingsLists" :> JList(lists))))

\* after the loop: the synthesized envelope, or None
CareerReturn(recent_standings) ==
    IF recent_standings # <<>> THEN StandingsEnvelope(recent_standings) ELSE None

\* one entry of StandingsLists as the upstream sends it
StandingsEntry(season, position) ==
    JDict([season |-> JStr(<<ToString(season)>>),
           DriverStandings |->
               JList(<<JDict([position |-> JStr(<<position>>),
                              points |-> JStr(<<"25">>),
                              wins |-> JStr(<<"1">>)])>>)])

\* the non-empty standings list the upstream may send for a year: not sorted,
\* and with one entry twice
YearStandings(year) ==
    { <<StandingsEntry(year, "2"), StandingsEntry(year, "1"), StandingsEntry(year, "2")>> }

StandingsTableOf(x) == JDict("MRData" :> JDict("StandingsTable" :> x))

\* what the upstream may answer to the request for one year
CareerResponses(year) ==
    { [k |-> "transport", why |-> "ReadTimeout"],
      [k |-> "unexpected", why |-> "InvalidURL"],
      Http(404, HtmlBody), Http(200, HtmlBody) }
      \cup { Http(200, JsonBody(j)) :
               j \in {EmptyDict, JNum(5), JDict("MRData" :> JNull), JDict("MRData" :> EmptyDict),
                      StandingsTableOf(JNull), StandingsTableOf(EmptyDict),
                      StandingsTableOf(JDict("StandingsLists" :> JNum(3))),
                      StandingsTableOf(JDict("StandingsLists" :> JList(<<>>)))}
                     \cup { StandingsTableOf(JDict("StandingsLists" :> JList(l))) :
                              l \in YearStandings(year) } }

\* what the upstream answers to the year's request while a tool aggregates: the
\* standings on record, or a failure in the two most recent years
ToolCareerResponses(driver_id, year, now_year) ==
    LET
        \* the drivers that have championship standings upstream
        DriversOnRecord == {"hamilton"}
    IN  LET lists == IF driver_id \in DriversOnRecord THEN YearStandings(year) ELSE {<<>>}
            data == { Http(200, JsonBody(StandingsTableOf(JDict("StandingsLists" :> JList(l))))) :
                        l \in lists }
        IN  IF year = now_year THEN data \cup {[k |-> "transport", why |-> "ReadTimeout"]}
            ELSE IF year = now_year - 1 THEN data \cup {Http(404, HtmlBody)}
            ELSE data

\* the answers possible for the year being probed
CareerUpstream(year) ==
    IF call.fn = "get_driver_career_standings"
    THEN CareerResponses(year)
    ELSE ToolCareerResponses(agg.driver_id, year, clock.year)

\* history: the answer is a 2xx JSON envelope holding a non-empty standings list
HasStandings(r) ==
    /\ r.k = "http"
    /\ r.status \in 200..299
    /\ r.body.raw = "json"
    /\ r.body.val.t = "dict"
    /\ "MRData" \in DOMAIN r.body.val.v
    /\ r.body.val.v["MRData"].t = "dict"
    /\ "StandingsTable" \in DOMAIN r.body.val.v["MRData"].v
    /\ r.body.val.v["MRData"].v["StandingsTable"].t = "dict"
    /\ "StandingsLists" \in DOMAIN r.body.val.v["MRData"].v["StandingsTable"].v
    /\ r.body.val.v["MRData"].v["StandingsTable"].v["StandingsLists"].t = "list"
    /\ r.body.val.v["MRData"].v["StandingsTable"].v["StandingsLists"].v # <<>>

\* the list of that answer
StandingsOf(r) == r.body.val.v["MRData"].v["StandingsTable"].v["StandingsLists"].v

InitCareer ==
    /\ call \in { [fn |-> "get_driver_career_standings", driver_id |-> d] : d \in DriverIds }
    /\ clock \in Clocks
    /\ pc = "start"
    /\ net = "idle"
    /\ requests = <<>>
    /\ upstream = NoResponse
    /\ loc = NoLocals
    /\ agg = AggIdle
    /\ found = <<>>
    /\ result = Pending

\* the direct call: current_year = datetime.now().year, recent_standings = []
CareerCall ==
    /\ call.fn = "get_driver_career_standings"
    /\ pc = "start"
    /\ agg' = AggStart(call.driver_id, clock.year)
    /\ pc' = "career"
    /\ UNCHANGED <<call, clock, net, requests, upstream, loc, found, result>>

\* mutant: the requests of the window are issued without awaiting the answers
AggSend_without_await ==
    /\ agg.pc \in {"loop", "await"}
    /\ agg.year > agg.current_year - WindowYears
    /\ net' = "inflight"
    /\ requests' = Append(requests, BuildURL(CareerEndpoint(agg.year, agg.driver_id)))
    /\ agg' = [agg EXCEPT !.pc = "await", !.year = IF agg.pc = "await" THEN @ - 1 ELSE @]
    /\ UNCHANGED <<call, clock, pc, upstream, loc, found, result>>

\* the request of the next year of the window is issued
AggSend ==
    /\ agg.pc = "loop"
    /\ agg.year > agg.current_year - WindowYears
    /\ net = "idle"
    /\ net' = "inflight"
    /\ requests' = Append(requests, BuildURL(CareerEndpoint(agg.year, agg.driver_id)))
    /\ agg' = [agg EXCEPT !.pc = "await"]
    /\ UNCHANGED <<call, clock, pc, upstream, loc, found, result>>

\* the year's fetch returns or fails, and the iteration ends
AggReceive ==
    /\ agg.pc = "await"
    /\ net = "inflight"
    /\ \E r \in CareerUpstream(agg.year) :
         /\ upstream' = r
         /\ agg' = CareerIteration(agg, make_jolpica_request(CareerEndpoint(agg.year, agg.driver_id), r))
         /\ found' = IF HasStandings(r)
                     THEN Append(found, [year |-> agg.year, lists |-> StandingsOf(r)])
                     ELSE found
    /\ net' = "idle"
    /\ UNCHANGED <<call, clock, pc, requests, loc, result>>

\* the window is exhausted
AggReturn ==
    /\ agg.pc = "loop"
    /\ agg.year <= agg.current_year - WindowYears
    /\ agg' = [pc |-> "done", ret |-> CareerReturn(agg.recent_standings)]
    /\ UNCHANGED <<call, clock, pc, net, requests, upstream, loc, found, result>>

\* the direct call returns what the aggregator returned
CareerDone ==
    /\ call.fn = "get_driver_career_standings"
    /\ pc = "career"
    /\ agg.pc = "done"
    /\ result' = agg.ret
    /\ pc' = "done"
    /\ UNCHANGED <<call, clock, net, requests, upstream, loc, agg, found>>

NextCareer == CareerCall \/ AggSend \/ AggReceive \/ AggReturn \/ CareerDone

SpecCareer == InitCareer /\ [][NextCareer]_vars

\* the event loop resumes a coroutine that can run, and every fetch ends: it
\* completes, fails, or runs into the timeout of the client. At most one step
\* of the call is enabled at a time, so fairness of the next step is fairness
\* of each.
SpecCareerLive == SpecCareer /\ WF_vars(NextCareer)

(***************************************************************************)
(* Tool handlers: what they return, and the Python they share              *)
(*                                                                         *)
(* A value a handler computes once and reads several times (a local of the *)
(* Python function) is either a LET definition or the parameter of a local *)
(* operator With_<local>, applied to the expression that computes it.      *)
(***************************************************************************)
\* a fixed message, a rendered block, and the text of the outer except clause
Fixed(tool, msg) == [t |-> "text", kind |-> "fixed", tool |-> tool, msg |-> msg]
Block(tool, shown) == [t |-> "text", kind |-> "block", tool |-> tool, shown |-> shown]
Failed(action, e) == [t |-> "text", kind |-> "failed", action |-> action, message |-> e.msg]

Ok == [t |-> "ok"]
S(x) == JStr(<<x>>)

RECURSIVE Path(_, _)
\* x[k1][k2]...
Path(x, keys) ==
    IF keys = <<>> THEN x
    ELSE LET With_y(y) ==
                 IF IsExc(y) THEN y ELSE Path(y, Tail(keys))
         IN  With_y(Subscript(x, Head(keys)))

RECURSIVE ReadAll(_, _)
\* the subscript chains a template reads from one item, in order
ReadAll(x, paths) ==
    IF paths = <<>> THEN Ok
    ELSE LET With_y(y) ==
                 IF IsExc(y) THEN y ELSE ReadAll(x, Tail(paths))
         IN  With_y(Path(x, Head(paths)))

RECURSIVE SeqOfSet(_)
SeqOfSet(set) ==
    IF set = {} THEN <<>>
    ELSE LET x == CHOOSE y \in set : TRUE
         IN  <<x>> \o SeqOfSet(set \ {x})

\* iter(x): the items of a list, the characters of a string, the keys of a dict
PyIter(x) ==
    CASE x.t = "list" -> x
      [] x.t = "str" -> JList([i \in 1..Len(x.v) |-> S(x.v[i])])
      [] x.t = "dict" -> LET With_ks(ks) ==
                                 JList([i \in 1..Len(ks) |-> S(ks[i])])
                         IN  With_ks(SeqOfSet(DOMAIN x.v))
      [] OTHER -> Raise("TypeError", "object is not iterable")

\* x[:] : the whole list, whatever n
Slice_all(x, n) ==
    CASE x.t \in {"list", "str"} -> x
      [] x.t = "dict" -> Raise("TypeError", "unhashable type: 'slice'")
      [] OTHER -> Raise("TypeError", "object is not subscriptable")

\* x[:n] of a list or a string
Slice(x, n) ==
    CASE x.t \in {"list", "str"} ->
           [x EXCEPT !.v = SubSeq(x.v, 1, IF Len(x.v) < n THEN Len(x.v) ELSE n)]
      [] x.t = "dict" -> Raise("TypeError", "unhashable type: 'slice'")
      [] OTHER -> Raise("TypeError", "object is not subscriptable")

\* the items a loop over x visits
Items(x) ==
    LET With_it(it) ==
            IF IsExc(it) THEN {} ELSE {it.v[i] : i \in DOMAIN it.v}
    IN  With_it(PyIter(x))

\* `for item in x:` with body F, a function of the item; the first exception
\* ends the loop
ForEach(x, F) ==
    LET With_it(it) ==
            IF IsExc(it) THEN it
            ELSE LET With_outs(outs) ==
                         IF \E i \in DOMAIN outs : IsExc(outs[i])
                         THEN outs[CHOOSE i \in DOMAIN outs :
                                     IsExc(outs[i]) /\ \A j \in 1..(i - 1) : ~IsExc(outs[j])]
                         ELSE Ok
                 IN  With_outs([i \in 1..Len(it.v) |-> F[it.v[i]]])
    IN  With_it(PyIter(x))

\* len(x)
PyLen(x) ==
    CASE x.t \in {"list", "str"} -> JNum(Len(x.v))
      [] x.t = "dict" -> JNum(Cardinality(DOMAIN x.v))
      [] OTHER -> Raise("TypeError", "object has no len()")

\* x[-1]
LastOf(x) ==
    CASE x.t = "list" ->
           IF Len(x.v) > 0 THEN x.v[Len(x.v)]
           ELSE Raise("IndexError", "list index out of range")
      [] x.t = "str" ->
           IF Len(x.v) > 0 THEN S(x.v[Len(x.v)])
           ELSE Raise("IndexError", "string index out of range")
      [] x.t = "dict" -> Raise("KeyError", "-1")
      [] OTHER -> Raise("TypeError", "object is not subscriptable")

\* the steps of an access chain: x[k], x.get(k, d), x[0], x[-1]
Key(k) == [op |-> "sub", k |-> k]
GetOr(k, d) == [op |-> "get", k |-> k, d |-> d]
Idx0 == [op |-> "first"]
IdxLast == [op |-> "last"]

RECURSIVE Walk(_, _)
Walk(x, steps) ==
    LET Step(obj, s) ==
            CASE s.op = "sub" -> Subscript(obj, s.k)
              [] s.op = "get" -> Get(obj, s.k, s.d)
              [] s.op = "first" -> First(obj)
              [] s.op = "last" -> LastOf(obj)
    IN  IF steps = <<>> THEN x
        ELSE LET With_y(y) ==
                     IF IsExc(y) THEN y ELSE Walk(y, Tail(steps))
             IN  With_y(Step(x, Head(steps)))

\* `if k in x:` followed by the reads of its branch
IfIn(x, k, paths) ==
    LET With_has(has) ==
            IF IsExc(has) THEN has
            ELSE IF Truthy(has) THEN ReadAll(x, paths) ELSE Ok
    IN  With_has(PyIn(x, k))

\* sorted(...) compares the keys pairwise: strings with strings, numbers with numbers
Sortable(keys) ==
    \/ Len(keys) <= 1
    \/ \A i \in DOMAIN keys : keys[i].t = "str"
    \/ \A i \in DOMAIN keys : keys[i].t = "num"

\* int(x)
PyInt(x) ==
    LET With_IntTokens(IntTokens) ==
            CASE x.t = "num" -> x
              [] x.t = "str" ->
                   IF Len(x.v) = 1 /\ x.v[1] \in DOMAIN IntTokens
                   THEN JNum(IntTokens[x.v[1]])
                   ELSE Raise("ValueError", "invalid literal for int() with base 10")
              [] OTHER -> Raise("TypeError", "int() argument must be a string or a number")
    IN  With_IntTokens(
            \* the decimal strings the upstream sends
            ("0" :> 0) @@ ("1" :> 1) @@ ("2" :> 2) @@ ("3" :> 3) @@ ("4" :> 4)
              @@ ("18" :> 18) @@ ("25" :> 25) @@ ("1950" :> 1950) @@ ("2024" :> 2024))

\* the ISO dates the upstream sends, as day ordinals
IsoDates ==
    ("2025-03-16" :> 20250316) @@ ("2025-06-15" :> 20250615)
      @@ ("2025-12-07" :> 20251207) @@ ("2026-03-08" :> 20260308)
      @@ ("2026-01-01" :> 20260101)

\* datetime.fromisoformat(x).date()
FromIso(x) ==
    CASE x.t = "str" ->
           IF Len(x.v) = 1 /\ x.v[1] \in DOMAIN IsoDates
           THEN JNum(IsoDates[x.v[1]])
           ELSE Raise("ValueError", "Invalid isoformat string")
      [] OTHER -> Raise("TypeError", "fromisoformat: argument must be str")

\* mutant: only the truthiness of the envelope is checked
Guard2_truthiness_only(data) == IF ~Truthy(data) THEN JNum(1) ELSE JNum(0)

\* `not data or 'MRData' not in data`: 1 when the guard fires
Guard2(data) ==
    IF ~Truthy(data) THEN JNum(1)
    ELSE LET With_has(has) ==
                 IF IsExc(has) THEN has
                 ELSE IF Truthy(has) THEN JNum(0) ELSE JNum(1)
         IN  With_has(PyIn(data, "MRData"))

\* `not data or 'MRData' not in data or table not in data['MRData']`
Guard3(data, table) ==
    LET With_g(g) ==
            IF IsExc(g) \/ Truthy(g) THEN g
            ELSE LET mr == Subscript(data, "MRData")
                 IN  IF IsExc(mr) THEN mr
                     ELSE LET With_has(has) ==
                                  IF IsExc(has) THEN has
                                  ELSE IF Truthy(has) THEN JNum(0) ELSE JNum(1)
                          IN  With_has(PyIn(mr, table))
    IN  With_g(Guard2(data))

\* statement a, then statement b unless a raised
Then(a, b) == IF IsExc(a) THEN a ELSE b

\* format_race_datetime(date_str, time_str): every exception is caught inside
format_race_datetime(date_str, time_str) ==
    IF ~Truthy(date_str) THEN S("TBD")
    ELSE JList(<<date_str, time_str>>)

\* time_status: `if 'Time' in result: result['Time']['time']  elif 'status' in result: ...`
TimeStatus(res) == IfIn(res, "Time", << <<"Time", "time">> >>)

(***************************************************************************)
(* race_tools.py                                                           *)
(***************************************************************************)
\* get_next_race with a strict comparison of the dates
get_next_race_today_is_past(data, clk) ==
    LET RECURSIVE FindNextRace(_, _)
        \* the loop compares with >: a race dated today is passed over
        FindNextRace(races, today) ==
            IF races = <<>> THEN None
            ELSE LET With_race_date(race_date) ==
                         IF IsExc(race_date) THEN race_date
                         ELSE IF race_date.v > IsoDates[today] THEN Head(races)
                         ELSE FindNextRace(Tail(races), today)
                 IN  With_race_date(
                         Then(Subscript(Head(races), "date"),
                              FromIso(Subscript(Head(races), "date"))))
        NextRaceReads ==
            << <<"Circuit">>, <<"Circuit", "Location">>, <<"raceName">>,
               <<"Circuit", "Location", "locality">>, <<"Circuit", "Location", "country">>,
               <<"Circuit", "circuitName">>, <<"date">>, <<"round">> >>
    IN  LET races == Path(data, <<"MRData", "RaceTable", "Races">>)
            it == PyIter(races)
            With_next_race(g, next_race) ==
                IF IsExc(g) THEN g
                ELSE IF Truthy(g)
                THEN Fixed("get_next_race", "No race data found. API might be unavailable.")
                ELSE IF IsExc(races) THEN races
                ELSE IF ~Truthy(races)
                THEN Fixed("get_next_race", "No upcoming races found. Season might be over.")
                ELSE IF IsExc(it) THEN it
                ELSE IF IsExc(next_race) THEN next_race
                ELSE IF ~Truthy(next_race)
                THEN Fixed("get_next_race", "No upcoming races found for this season.")
                ELSE Then(ReadAll(next_race, NextRaceReads),
                          Block("get_next_race",
                                [race |-> next_race,
                                 date |-> format_race_datetime(
                                              Subscript(next_race, "date"),
                                              Get(next_race, "time", None))]))
        IN  With_next_race(Guard3(data, "RaceTable"), FindNextRace(it.v, clk.today))

get_next_race(data, clk) ==
    LET RECURSIVE FindNextRace(_, _)
        \* the loop that breaks at the first race dated today or later
        FindNextRace(races, today) ==
            IF races = <<>> THEN None
            ELSE LET With_race_date(race_date) ==
                         IF IsExc(race_date) THEN race_date
                         ELSE IF race_date.v >= IsoDates[today] THEN Head(races)
                         ELSE FindNextRace(Tail(races), today)
                 IN  With_race_date(
                         Then(Subscript(Head(races), "date"),
                              FromIso(Subscript(Head(races), "date"))))
        NextRaceReads ==
            << <<"Circuit">>, <<"Circuit", "Location">>, <<"raceName">>,
               <<"Circuit", "Location", "locality">>, <<"Circuit", "Location", "country">>,
               <<"Circuit", "circuitName">>, <<"date">>, <<"round">> >>
    IN  LET races == Path(data, <<"MRData", "RaceTable", "Races">>)
            it == PyIter(races)
            With_next_race(g, next_race) ==
                IF IsExc(g) THEN g
                ELSE IF Truthy(g)
                THEN Fixed("get_next_race", "No race data found. API might be unavailable.")
                ELSE IF IsExc(races) THEN races
                ELSE IF ~Truthy(races)
                THEN Fixed("get_next_race", "No upcoming races found. Season might be over.")
                ELSE IF IsExc(it) THEN it
                ELSE IF IsExc(next_race) THEN next_race
                ELSE IF ~Truthy(next_race)
                THEN Fixed("get_next_race", "No upcoming races found for this season.")
                ELSE Then(ReadAll(next_race, NextRaceReads),
                          Block("get_next_race",
                                [race |-> next_race,
                                 date |-> format_race_datetime(
                                              Subscript(next_race, "date"),
                                              Get(next_race, "time", None))]))
        IN  With_next_race(Guard3(data, "RaceTable"), FindNextRace(it.v, clk.today))

get_race_schedule(data, clk) ==
    LET
        \* one race of the calendar
        ScheduleRace(race) ==
            Then(Subscript(race, "date"),
            Then(FromIso(Subscript(race, "date")),
                 ReadAll(race, << <<"Circuit">>, <<"Circuit", "Location">>, <<"round">>,
                                  <<"raceName">>, <<"Circuit", "Location", "locality">>,
                                  <<"Circuit", "Location", "country">>,
                                  <<"Circuit", "circuitName">>, <<"date">> >>)))
    IN  LET With_season(g, races, season) ==
                IF IsExc(g) THEN g
                ELSE IF Truthy(g)
                THEN Fixed("get_race_schedule", "No race schedule found. API might be unavailable.")
                ELSE IF IsExc(races) THEN races
                ELSE IF IsExc(season) THEN season
                ELSE IF ~Truthy(races)
                THEN Fixed("get_race_schedule", "No races found for {season} season.")
                ELSE Then(ForEach(races, [item \in Items(races) |-> ScheduleRace(item)]),
                          Block("get_race_schedule", [season |-> season, rows |-> races]))
        IN  With_season(
                Guard3(data, "RaceTable"),
                Path(data, <<"MRData", "RaceTable", "Races">>),
                Path(data, <<"MRData", "RaceTable", "season">>))

get_latest_race_results(data) ==
    LET
        \* one line of the final positions
        LatestResult(res) ==
            Then(ReadAll(res, << <<"Driver">>, <<"Constructor">>, <<"position">>,
                                    <<"Driver", "givenName">>, <<"Driver", "familyName">>,
                                    <<"Constructor", "name">> >>),
            Then(TimeStatus(res), IfIn(res, "points", << <<"points">> >>)))
    IN  LET g == Guard3(data, "RaceTable")
            race_table == Path(data, <<"MRData", "RaceTable">>)
            all == Subscript(race_table, "Races")
            race == First(all)
            results == Get(race, "Results", JList(<<>>))
        IN  IF IsExc(g) THEN g
            ELSE IF Truthy(g)
            THEN Fixed("get_latest_race_results",
                       "No recent race results available. API might be unavailable.")
            ELSE IF IsExc(all) THEN all
            ELSE IF ~Truthy(all)
            THEN Fixed("get_latest_race_results", "No race results found.")
            ELSE IF IsExc(race) THEN race
            ELSE IF IsExc(results) THEN results
            ELSE IF ~Truthy(results)
            THEN Fixed("get_latest_race_results", "Race results not available yet.")
            ELSE Then(ReadAll(race, << <<"Circuit">>, <<"Circuit", "Location">>,
                                       <<"raceName">>, <<"round">>,
                                       <<"Circuit", "Location", "locality">>,
                                       <<"Circuit", "Location", "country">>,
                                       <<"Circuit", "circuitName">>, <<"date">> >>),
                 Then(ForEach(results, [item \in Items(results) |-> LatestResult(item)]),
                      Block("get_latest_race_results", [race |-> race, rows |-> results])))

(***************************************************************************)
(* standings_tools.py                                                      *)
(***************************************************************************)
\* the body shared by the two standings tools, which differ in keys and texts
Standings(tool, what, listKey, data) ==
    LET
        \* `standing['Constructors'][0] if standing['Constructors'] else {'name': 'Unknown'}`
        StandingConstructor(standing) ==
            LET With_cs(cs) ==
                    IF IsExc(cs) THEN cs
                    ELSE IF Truthy(cs) THEN First(cs) ELSE JDict("name" :> S("Unknown"))
            IN  With_cs(Subscript(standing, "Constructors"))
        DriverStanding(standing) ==
            Then(Subscript(standing, "Driver"),
            Then(StandingConstructor(standing),
            Then(ReadAll(standing, << <<"position">>, <<"Driver", "givenName">>,
                                      <<"Driver", "familyName">> >>),
            Then(Subscript(StandingConstructor(standing), "name"),
                 ReadAll(standing, << <<"points">>, <<"wins">>,
                                      <<"Driver", "nationality">> >>)))))
        ConstructorStanding(standing) ==
            ReadAll(standing, << <<"Constructor">>, <<"position">>, <<"Constructor", "name">>,
                                 <<"Constructor", "nationality">>, <<"points">>, <<"wins">> >>)
    IN  LET g == Guard3(data, "StandingsTable")
            standings_list == Path(data, <<"MRData", "StandingsTable", "StandingsLists">>)
            standings == Walk(standings_list, <<Idx0, Key(listKey)>>)
            season == Path(data, <<"MRData", "StandingsTable", "season">>)
        IN  IF IsExc(g) THEN g
            ELSE IF Truthy(g)
            THEN Fixed(tool, "No " \o what \o " standings available. API might be unavailable.")
            ELSE IF IsExc(standings_list) THEN standings_list
            ELSE IF ~Truthy(standings_list)
            THEN Fixed(tool, "No " \o what \o " standings found.")
            ELSE IF IsExc(standings) THEN standings
            ELSE IF IsExc(season) THEN season
            ELSE Then(ForEach(standings,
                              [x \in Items(standings) |->
                                 IF listKey = "DriverStandings" THEN DriverStanding(x) ELSE ConstructorStanding(x)]),
                      Block(tool, [season |-> season, rows |-> standings]))

get_current_standings(data) ==
    Standings("get_current_standings", "driver", "DriverStandings", data)

get_constructor_standings(data) ==
    Standings("get_constructor_standings", "constructor", "ConstructorStandings", data)

(***************************************************************************)
(* historical_tools.py                                                     *)
(***************************************************************************)
get_historical_schedule(data) ==
    LET HistoricalRace(race) ==
            ReadAll(race, << <<"Circuit", "Location">>, <<"date">>, <<"round">>,
                             <<"raceName">>, <<"Circuit", "Location", "locality">> >>)
    IN  LET With_season(g, races, season) ==
                IF IsExc(g) THEN g
                ELSE IF Truthy(g)
                THEN Fixed("get_historical_schedule",
                           "No race schedule found for {year}. API might be unavailable.")
                ELSE IF IsExc(races) THEN races
                ELSE IF IsExc(season) THEN season
                ELSE IF ~Truthy(races)
                THEN Fixed("get_historical_schedule", "No races found for {season} season.")
                ELSE Then(PyLen(races),
                     Then(ForEach(races, [item \in Items(races) |-> HistoricalRace(item)]),
                          Block("get_historical_schedule",
                                [season |-> season, count |-> PyLen(races), rows |-> races])))
        IN  With_season(
                Guard3(data, "RaceTable"),
                Path(data, <<"MRData", "RaceTable", "Races">>),
                Path(data, <<"MRData", "RaceTable", "season">>))

get_all_seasons(data) ==
    LET
        \* year = int(season['season'])
        YearOfSeason(season) == Then(Subscript(season, "season"), PyInt(Subscript(season, "season")))
    IN  LET With_seasons(g, seasons) ==
                LET it == PyIter(seasons)
                IN  IF IsExc(g) THEN g
                    ELSE IF Truthy(g) THEN Fixed("get_all_seasons", "No season data available.")
                    ELSE IF IsExc(seasons) THEN seasons
                    ELSE IF ~Truthy(seasons) THEN Fixed("get_all_seasons", "No seasons found.")
                    ELSE Then(ForEach(seasons, [item \in Items(seasons) |-> YearOfSeason(item)]),
                         Then(PyLen(seasons),
                         Then(Walk(seasons, <<Idx0, Key("season")>>),
                         Then(Walk(seasons, <<IdxLast, Key("season")>>),
                              Block("get_all_seasons",
                                    [years |-> { YearOfSeason(it.v[i]).v : i \in 1..Len(it.v) },
                                     total |-> PyLen(seasons),
                                     from |-> Walk(seasons, <<Idx0, Key("season")>>),
                                     to |-> Walk(seasons, <<IdxLast, Key("season")>>)])))))
        IN  With_seasons(
                Guard3(data, "SeasonTable"),
                Walk(data, <<Key("MRData"), Key("SeasonTable"),
                             GetOr("Seasons", JList(<<>>))>>))

(***************************************************************************)
(* data_tools.py                                                           *)
(***************************************************************************)
CURRENT_YEAR == 2025

\* a dict key must be hashable
GroupKey(item, steps) ==
    LET With_k(k) ==
            IF IsExc(k) THEN k
            ELSE IF k.t \in {"list", "dict"} THEN Raise("TypeError", "unhashable type")
            ELSE k
    IN  With_k(Walk(item, steps))

\* the body shared by the three lineup tools: group (or not), sort, list
Lineup(tool, table, itemsKey, grouped, groupSteps, sortSteps, noData, noItems, data) ==
    LET
        \* sorted(groups.keys()) and, in each group, sorted(group, key=...)
        GroupsSortable(items) ==
            LET keys == { Walk(items[i], groupSteps) : i \in DOMAIN items }
                group(k) == SelectSeq(items, LAMBDA x : Walk(x, groupSteps) = k)
                names(q) == [i \in 1..Len(q) |-> Walk(q[i], sortSteps)]
            IN  IF grouped
                THEN /\ Sortable(SeqOfSet(keys))
                     /\ \A k \in keys : Sortable(names(group(k)))
                ELSE Sortable(names(items))
    IN  LET g == Guard3(data, table)
            items == Walk(data, <<Key("MRData"), Key(table), GetOr(itemsKey, JList(<<>>))>>)
            it == PyIter(items)
        IN  IF IsExc(g) THEN g
            ELSE IF Truthy(g) THEN Fixed(tool, noData)
            ELSE IF IsExc(items) THEN items
            ELSE IF ~Truthy(items) THEN Fixed(tool, noItems)
            ELSE Then(PyLen(items),
                 Then(IF grouped THEN ForEach(items,
                                              [x \in Items(items) |->
                                                 GroupKey(x, groupSteps)]) ELSE Ok,
                 Then(ForEach(items, [x \in Items(items) |-> Walk(x, sortSteps)]),
                      IF ~GroupsSortable(it.v)
                      THEN Raise("TypeError", "'<' not supported between instances")
                      ELSE Block(tool, [total |-> PyLen(items), rows |-> items]))))

get_all_circuits(data) ==
    Lineup("get_all_circuits", "CircuitTable", "Circuits", TRUE,
           <<GetOr("Location", EmptyDict), GetOr("country", S("Unknown"))>>,
           <<GetOr("circuitName", S(""))>>,
           "No circuit data available.", "No circuits found.", data)

\* season = data['MRData'][table].get('season', CURRENT_YEAR), shown with the list
WithSeason(text, data, table) ==
    IF text.t = "text" /\ text.kind = "block"
    THEN [text EXCEPT !.shown =
            [total |-> text.shown.total, rows |-> text.shown.rows,
             season |-> Walk(data, <<Key("MRData"), Key(table),
                                     GetOr("season", JNum(CURRENT_YEAR))>>)]]
    ELSE text

get_current_drivers(data) ==
    WithSeason(
        Lineup("get_current_drivers", "DriverTable", "Drivers", TRUE,
               <<GetOr("nationality", S("Unknown"))>>, <<GetOr("familyName", S(""))>>,
               "No driver data available.", "No drivers found for {season} season.", data),
        data, "DriverTable")

\* no grouping here: sorted(constructors, key=lambda x: x.get('name', ''))
get_current_constructors(data) ==
    WithSeason(
        Lineup("get_current_constructors", "ConstructorTable", "Constructors", FALSE,
               <<>>, <<GetOr("name", S(""))>>,
               "No constructor data available.",
               "No constructors found for {season} season.", data),
        data, "ConstructorTable")

(***************************************************************************)
(* racing_tools.py                                                         *)
(***************************************************************************)
\* float(x), in tenths
PyFloat(x) ==
    LET With_FloatTokens(FloatTokens) ==
            CASE x.t = "num" -> JNum(10 * x.v)
              [] x.t = "str" ->
                   IF Len(x.v) = 1 /\ x.v[1] \in DOMAIN FloatTokens
                   THEN JNum(FloatTokens[x.v[1]])
                   ELSE Raise("ValueError", "could not convert string to float")
              [] OTHER -> Raise("TypeError", "float() argument must be a string or a number")
    IN  With_FloatTokens(
            \* the decimal fractions the upstream sends, in tenths
            ("2.5" :> 25) @@ ("3.1" :> 31) @@ ("35.1" :> 351) @@ ("36.0" :> 360)
              @@ ("0" :> 0) @@ ("1" :> 10) @@ ("2" :> 20) @@ ("25" :> 250))

\* x.upper()
Upper(x) ==
    IF x.t = "str" THEN x ELSE Raise("AttributeError", "object has no attribute 'upper'")

\* `if not races or key not in races[0]`: 1 when the guard fires
NoRaceWith(races, key) ==
    IF ~Truthy(races) THEN JNum(1)
    ELSE LET With_has(has) ==
                 IF IsExc(has) THEN has
                 ELSE IF Truthy(has) THEN JNum(0) ELSE JNum(1)
         IN  With_has(Then(First(races), PyIn(First(races), key)))

\* the opening shared by the race-detail tools: guard, race list, first race;
\* the race when the handler goes on to render it
RaceDetail(tool, noData, key, noItems, data) ==
    LET With_races(g, races) ==
            LET With_none(none) ==
                    IF IsExc(g) THEN g
                    ELSE IF Truthy(g) THEN Fixed(tool, noData)
                    ELSE IF IsExc(races) THEN races
                    ELSE IF IsExc(none) THEN none
                    ELSE IF Truthy(none) THEN Fixed(tool, noItems)
                    ELSE Then(First(races), [t |-> "race", race |-> First(races)])
            IN  With_none(NoRaceWith(races, key))
    IN  With_races(
            Guard3(data, "RaceTable"),
            Walk(data, <<Key("MRData"), Key("RaceTable"),
                         GetOr("Races", JList(<<>>))>>))

get_sprint_results(data) ==
    LET SprintBody(race) ==
            LET SprintResult(res) ==
                    Then(ReadAll(res, << <<"Driver">>, <<"Constructor">>, <<"position">> >>),
                    Then(TimeStatus(res),
                         ReadAll(res, << <<"Driver", "givenName">>, <<"Driver", "familyName">>,
                                         <<"Constructor", "name">> >>)))
            IN  Then(ReadAll(race, << <<"Circuit">>, <<"Circuit", "Location">>, <<"raceName">>,
                                      <<"Circuit", "circuitName">>,
                                      <<"Circuit", "Location", "locality">>,
                                      <<"Circuit", "Location", "country">>, <<"date">>,
                                      <<"SprintResults">> >>),
                Then(ForEach(Subscript(race, "SprintResults"),
                             [item \in Items(Subscript(race, "SprintResults")) |->
                                SprintResult(item)]),
                     Block("get_sprint_results",
                           [race |-> race, rows |-> Subscript(race, "SprintResults")])))
    IN  LET With_first(first) ==
                IF first.t = "race" THEN SprintBody(first.race) ELSE first
        IN  With_first(
                RaceDetail("get_sprint_results", "No sprint data found for {year} round {round_num}.",
                           "SprintResults", "No sprint results found for {year} round {round_num}.", data))

get_pitstops(data) ==
    LET PitStopsBody(race) ==
            LET
                \* the first loop over the pit stops: group by driver, parse the duration
                PitStop(stop) ==
                    Then(GroupKey(stop, <<Key("driverId")>>),
                         LET has == PyIn(stop, "duration")
                         IN  IF IsExc(has) THEN has
                             ELSE IF Truthy(has) THEN PyFloat(Subscript(stop, "duration")) ELSE Ok)
                \* fastest_stop: the first stop with the smallest duration
                FastestStop(stops) ==
                    LET timed == { i \in DOMAIN stops : Truthy(PyIn(stops[i], "duration")) }
                        d(i) == PyFloat(Subscript(stops[i], "duration")).v
                    IN  IF timed = {} THEN None
                        ELSE stops[CHOOSE i \in timed :
                                     /\ \A j \in timed : d(i) <= d(j)
                                     /\ \A j \in timed : j < i => d(j) > d(i)]
            IN  LET pit_stops == Subscript(race, "PitStops")
                    it == PyIter(pit_stops)
                    ids == { Subscript(it.v[i], "driverId") : i \in DOMAIN it.v }
                    With_fastest_stop(fastest_stop) ==
                        Then(ReadAll(race, << <<"Circuit">>, <<"PitStops">>, <<"raceName">>,
                                              <<"Circuit", "circuitName">> >>),
                        Then(PyLen(pit_stops),
                        Then(ForEach(pit_stops, [item \in Items(pit_stops) |-> PitStop(item)]),
                        Then(IF Truthy(fastest_stop)
                             THEN ReadAll(fastest_stop, << <<"duration">>, <<"lap">> >>) ELSE Ok,
                        Then(IF Sortable(SeqOfSet(ids)) THEN Ok
                             ELSE Raise("TypeError", "'<' not supported between instances"),
                        Then(ForEach(pit_stops,
                                     [x \in Items(pit_stops) |-> Upper(Subscript(x, "driverId"))]),
                        Then(ForEach(pit_stops, [x \in Items(pit_stops) |-> Subscript(x, "lap")]),
                             Block("get_pitstops",
                                   [race |-> race, total |-> PyLen(pit_stops),
                                    fastest |-> fastest_stop, rows |-> pit_stops]))))))))
                IN  With_fastest_stop(FastestStop(it.v))
    IN  LET first == RaceDetail("get_pitstops", "No pit stop data found for {year} round {round_num}.",
                                "PitStops", "No pit stops found for {year} round {round_num}.", data)
        IN  IF first.t = "race" THEN PitStopsBody(first.race) ELSE first

\* the inner loop body comparing with <=: a later timing of the same total replaces the earlier
LapTiming_last_on_ties(lap, timing, best) ==
    LET RECURSIVE Split(_)
        \* time_str.split(':'), on the tokens of the string
        Split(q) ==
            IF \A i \in DOMAIN q : q[i] # ":" THEN <<q>>
            ELSE LET i == CHOOSE k \in DOMAIN q : q[k] = ":" /\ \A j \in 1..(k - 1) : q[j] # ":"
                 IN  <<SubSeq(q, 1, i - 1)>> \o Split(SubSeq(q, i + 1, Len(q)))
    IN  LET time_str == Subscript(timing, "time")
            parts == Split(time_str.v)
            minutes == PyInt(JStr(parts[1]))
            seconds == PyFloat(JStr(parts[2]))
            With_total_seconds(has, total_seconds) ==
                IF IsExc(has) THEN has
                ELSE IF ~Truthy(has) THEN best
                ELSE IF time_str.t # "str"
                THEN Raise("AttributeError", "object has no attribute 'split'")
                ELSE IF Len(parts) # 2 THEN best
                ELSE IF IsExc(minutes) \/ IsExc(seconds) THEN best
                ELSE IF best.t = "None" \/ best.total = 0 \/ total_seconds <= best.total
                THEN Then(Subscript(lap, "number"),
                     Then(Subscript(timing, "driverId"),
                          [t |-> "best", total |-> total_seconds,
                           lap |-> Subscript(lap, "number"),
                           driver |-> Subscript(timing, "driverId"), time |-> time_str]))
                ELSE best
        IN  With_total_seconds(PyIn(timing, "time"), minutes.v * 600 + seconds.v)

\* the body of the inner loop of the fastest-lap search; best is None or the
\* fastest lap so far.  ValueError and IndexError are caught, nothing else is.
LapTiming(lap, timing, best) ==
    LET RECURSIVE Split(_)
        \* time_str.split(':'), on the tokens of the string
        Split(q) ==
            IF \A i \in DOMAIN q : q[i] # ":" THEN <<q>>
            ELSE LET i == CHOOSE k \in DOMAIN q : q[k] = ":" /\ \A j \in 1..(k - 1) : q[j] # ":"
                 IN  <<SubSeq(q, 1, i - 1)>> \o Split(SubSeq(q, i + 1, Len(q)))
    IN  LET time_str == Subscript(timing, "time")
            parts == Split(time_str.v)
            minutes == PyInt(JStr(parts[1]))
            seconds == PyFloat(JStr(parts[2]))
            With_total_seconds(has, total_seconds) ==
                IF IsExc(has) THEN has
                ELSE IF ~Truthy(has) THEN best
                ELSE IF time_str.t # "str"
                THEN Raise("AttributeError", "object has no attribute 'split'")
                ELSE IF Len(parts) # 2 THEN best
                ELSE IF IsExc(minutes) \/ IsExc(seconds) THEN best
                ELSE IF best.t = "None" \/ best.total = 0 \/ total_seconds < best.total
                THEN Then(Subscript(lap, "number"),
                     Then(Subscript(timing, "driverId"),
                          [t |-> "best", total |-> total_seconds,
                           lap |-> Subscript(lap, "number"),
                           driver |-> Subscript(timing, "driverId"), time |-> time_str]))
                ELSE best
        IN  With_total_seconds(PyIn(timing, "time"), minutes.v * 600 + seconds.v)

get_lap_times(data) ==
    LET LapTimesBody(race) ==
            LET RECURSIVE LapTimings(_, _, _)
                LapTimings(lap, timings, best) ==
                    IF timings = <<>> THEN best
                    ELSE LET With_b(b) ==
                                 IF IsExc(b) THEN b ELSE LapTimings(lap, Tail(timings), b)
                         IN  With_b(LapTiming(lap, Head(timings), best))
                RECURSIVE FastestLap(_, _)
                \* `for lap in laps: for timing in lap.get('Timings', []):`
                FastestLap(laps, best) ==
                    IF laps = <<>> THEN best
                    ELSE LET it == Then(Get(Head(laps), "Timings", JList(<<>>)),
                                        PyIter(Get(Head(laps), "Timings", JList(<<>>))))
                             With_b(b) ==
                                 IF IsExc(it) THEN it
                                 ELSE IF IsExc(b) THEN b ELSE FastestLap(Tail(laps), b)
                         IN  With_b(LapTimings(Head(laps), it.v, best))
                \* one lap of the sample: the lap number and its first 5 timings
                SampleLap(lap) ==
                    LET timings == Get(lap, "Timings", JList(<<>>))
                    IN  Then(Subscript(lap, "number"),
                        Then(timings,
                        Then(Slice(timings, 5),
                             ForEach(Slice(timings, 5),
                                     [x \in Items(Slice(timings, 5)) |->
                                        Upper(Subscript(x, "driverId"))]))))
            IN  LET laps == Subscript(race, "Laps")
                    it == PyIter(laps)
                    With_fastest_lap(fastest_lap) ==
                        Then(ReadAll(race, << <<"Circuit">>, <<"Laps">>, <<"raceName">>,
                                              <<"Circuit", "circuitName">> >>),
                        Then(PyLen(laps),
                        Then(it,
                        Then(fastest_lap,
                        Then(IF fastest_lap.t # "None" THEN Upper(fastest_lap.driver) ELSE Ok,
                        Then(Slice(laps, 5),
                        Then(ForEach(Slice(laps, 5),
                                     [item \in Items(Slice(laps, 5)) |-> SampleLap(item)]),
                             Block("get_lap_times",
                                   [race |-> race, total |-> PyLen(laps), fastest |-> fastest_lap,
                                    rows |-> Slice(laps, 5)]))))))))
                IN  With_fastest_lap(FastestLap(it.v, None))
    IN  LET first == RaceDetail("get_lap_times", "No lap time data found for {year} round {round_num}.",
                                "Laps", "No lap times found for {year} round {round_num}.", data)
        IN  IF first.t = "race" THEN LapTimesBody(first.race) ELSE first

(***************************************************************************)
(* status_tools.py                                                         *)
(***************************************************************************)
get_status_codes(data) ==
    LET
        \* str.lower() on the words the upstream sends
        LowerWords ==
            ("Finished" :> "finished") @@ ("Engine" :> "engine") @@ ("Lap" :> "lap")
              @@ ("Disqualified" :> "disqualified") @@ ("+1" :> "+1")
        RetirementWords ==
            {"engine", "gearbox", "transmission", "accident", "collision", "spun", "retired",
             "withdraw"}
        \* status.get('status', '').lower()
        StatusText(status) ==
            LET With_x(x) ==
                    IF IsExc(x) THEN x
                    ELSE IF x.t # "str" THEN Raise("AttributeError", "object has no attribute 'lower'")
                    ELSE JStr([i \in 1..Len(x.v) |->
                                 IF x.v[i] \in DOMAIN LowerWords THEN LowerWords[x.v[i]] ELSE x.v[i]])
            IN  With_x(Get(status, "status", JStr(<<>>)))
        \* the list a status code is appended to
        StatusClass(status) ==
            LET With_w(w) ==
                    IF (\E i \in DOMAIN w : w[i] = "finished") \/ (w # <<>> /\ w[1] = "+1")
                    THEN "finished"
                    ELSE IF \E i \in DOMAIN w : w[i] \in RetirementWords THEN "retired"
                    ELSE "other"
            IN  With_w(StatusText(status).v)
    IN  LET With_statuses(g, statuses) ==
                LET it == PyIter(statuses)
                    of(class) == SelectSeq(it.v, LAMBDA x : StatusClass(x) = class)
                IN  IF IsExc(g) THEN g
                    ELSE IF Truthy(g) THEN Fixed("get_status_codes", "No status data available.")
                    ELSE IF IsExc(statuses) THEN statuses
                    ELSE IF ~Truthy(statuses) THEN Fixed("get_status_codes", "No status codes found.")
                    ELSE Then(PyLen(statuses),
                         Then(ForEach(statuses, [item \in Items(statuses) |-> StatusText(item)]),
                              Block("get_status_codes",
                                    [total |-> PyLen(statuses), finished |-> of("finished"),
                                     retired |-> of("retired"), other |-> of("other")])))
        IN  With_statuses(
                Guard3(data, "StatusTable"),
                Walk(data, <<Key("MRData"), Key("StatusTable"),
                             GetOr("Status", JList(<<>>))>>))

(***************************************************************************)
(* analysis_tools.py                                                       *)
(***************************************************************************)
DriverLine == << <<"Driver", "givenName">>, <<"Driver", "familyName">>,
                 <<"Constructor", "name">> >>

\* the handler once both fetches have returned
get_race_analysis(race_data, quali_data) ==
    LET
        \* the condition of the qualifying block:
        \* quali_data and 'MRData' in quali_data and quali_data['MRData']['RaceTable']['Races']
        HasQualifying ==
            IF ~Truthy(quali_data) THEN JNum(0)
            ELSE LET With_races(has, races) ==
                         IF IsExc(has) THEN has
                         ELSE IF ~Truthy(has) THEN JNum(0)
                         ELSE IF IsExc(races) THEN races
                         ELSE IF Truthy(races) THEN JNum(1) ELSE JNum(0)
                 IN  With_races(
                         PyIn(quali_data, "MRData"),
                         Path(quali_data, <<"MRData", "RaceTable", "Races">>))
        \* the rows of the qualifying block, None when the block is left out
        AnalysisQualifying ==
            LET With_quali_race(cond, quali_race) ==
                    LET has == PyIn(quali_race, "QualifyingResults")
                        top == Then(Subscript(quali_race, "QualifyingResults"),
                                    Slice(Subscript(quali_race, "QualifyingResults"), 10))
                    IN  IF IsExc(cond) THEN cond
                        ELSE IF ~Truthy(cond) THEN None
                        ELSE IF IsExc(quali_race) THEN quali_race
                        ELSE IF IsExc(has) THEN has
                        ELSE IF ~Truthy(has) THEN None
                        ELSE Then(top,
                             Then(ForEach(top,
                                          [x \in Items(top) |->
                                             ReadAll(x, << <<"Driver">>, <<"Constructor">> >> \o DriverLine)]),
                                  top))
            IN  With_quali_race(
                    HasQualifying,
                    Walk(quali_data, <<Key("MRData"), Key("RaceTable"), Key("Races"), Idx0>>))
        AnalysisResult(res) ==
            Then(ReadAll(res, << <<"Driver">>, <<"Constructor">>, <<"position">> >>),
            Then(TimeStatus(res), ReadAll(res, DriverLine)))
        \* the winner lines, read when race['Results'] is not empty
        AnalysisWinner(race) ==
            LET winner == First(Subscript(race, "Results"))
                fastest == Subscript(winner, "FastestLap")
            IN  IF ~Truthy(Subscript(race, "Results")) THEN None
                ELSE Then(winner,
                     Then(ReadAll(winner, << <<"Driver">>, <<"Constructor">> >> \o DriverLine),
                     Then(IF Truthy(PyIn(winner, "FastestLap"))
                          THEN Then(Walk(fastest, <<GetOr("Time", EmptyDict),
                                                    GetOr("time", S("N/A"))>>),
                                    Get(fastest, "lap", S("N/A")))
                          ELSE Ok,
                          winner)))
        \* the rows of the race results and the winner, None when 'Results' is absent
        AnalysisResults(race) ==
            LET top == Then(Subscript(race, "Results"), Slice(Subscript(race, "Results"), 10))
            IN  IF ~Truthy(PyIn(race, "Results")) THEN [t |-> "ok", rows |-> None, winner |-> None]
                ELSE Then(top,
                     Then(ForEach(top, [item \in Items(top) |-> AnalysisResult(item)]),
                     Then(AnalysisWinner(race),
                          [t |-> "ok", rows |-> top, winner |-> AnalysisWinner(race)])))
    IN  LET race_table == Path(race_data, <<"MRData", "RaceTable">>)
            races == Get(race_table, "Races", JList(<<>>))
            race == First(races)
            With_res(g, quali, res) ==
                IF IsExc(g) THEN g
                ELSE IF Truthy(g)
                THEN Fixed("get_race_analysis", "No race data found for {year} round {round_num}.")
                ELSE IF IsExc(race_table) THEN race_table
                ELSE IF IsExc(races) THEN races
                ELSE IF ~Truthy(races)
                THEN Fixed("get_race_analysis", "No race found for {year} round {round_num}.")
                ELSE Then(race,
                     Then(ReadAll(race, << <<"Circuit">>, <<"Circuit", "Location">>,
                                           <<"raceName">>, <<"Circuit", "circuitName">>,
                                           <<"Circuit", "Location", "locality">>,
                                           <<"Circuit", "Location", "country">>,
                                           <<"date">>, <<"round">> >>),
                     Then(quali,
                     Then(res,
                          Block("get_race_analysis",
                                [race |-> race, qualifying |-> quali,
                                 rows |-> res.rows, winner |-> res.winner])))))
        IN  With_res(Guard2(race_data), AnalysisQualifying, AnalysisResults(race))

\* the handler after its fetch: MRData is checked, RaceTable is subscripted
get_qualifying_results(quali_data) ==
    LET QualifyingBody(race) ==
            LET
                \* the session an entry is listed under; entries without a session time are dropped
                QualifyingSession(res) ==
                    IF Contains(res, "Q3") THEN "Q3"
                    ELSE IF Contains(res, "Q2") THEN "Q2"
                    ELSE IF Contains(res, "Q1") THEN "Q1" ELSE "none"
                GridKey(res) == PyInt(Subscript(res, "position")).v
                RECURSIVE Insert(_, _)
                \* x put behind every entry whose key is not greater: sorted() is stable
                Insert(sorted, x) ==
                    IF sorted = <<>> THEN <<x>>
                    ELSE IF GridKey(Head(sorted)) <= GridKey(x)
                    THEN <<Head(sorted)>> \o Insert(Tail(sorted), x)
                    ELSE <<x>> \o sorted
                RECURSIVE SortedByPosition(_)
                \* sorted(rows, key=lambda x: int(x[0]))
                SortedByPosition(rows) ==
                    IF rows = <<>> THEN <<>>
                    ELSE Insert(SortedByPosition(SubSeq(rows, 1, Len(rows) - 1)), rows[Len(rows)])
            IN  LET it == PyIter(Subscript(race, "QualifyingResults"))
                    of(session) == SelectSeq(it.v, LAMBDA x : QualifyingSession(x) = session)
                    q3_drivers == of("Q3")
                    With_listed(listed) ==
                        LET all_results == SortedByPosition(listed)
                        IN  Then(ReadAll(race, << <<"Circuit">>, <<"raceName">>, <<"Circuit", "circuitName">>,
                                                  <<"date">>, <<"QualifyingResults">> >>),
                            Then(ForEach(Subscript(race, "QualifyingResults"),
                                         [x \in Items(Subscript(race, "QualifyingResults")) |->
                                            ReadAll(x, << <<"Driver">>, <<"Constructor">>, <<"position">> >>)]),
                            Then(ForEach(JList(listed),
                                         [x \in Items(JList(listed)) |-> PyInt(Subscript(x, "position"))]),
                            Then(ForEach(JList(all_results),
                                         [x \in Items(JList(all_results)) |-> ReadAll(x, DriverLine)]),
                                 Block("get_qualifying_results",
                                       [race |-> race, grid |-> all_results,
                                        pole |-> IF q3_drivers = <<>> THEN None
                                                 ELSE Head(SortedByPosition(q3_drivers))])))))
                IN  With_listed(q3_drivers \o of("Q2") \o of("Q1"))
    IN  LET g == Guard2(quali_data)
            race_table == Path(quali_data, <<"MRData", "RaceTable">>)
            races == Get(race_table, "Races", JList(<<>>))
            none == NoRaceWith(races, "QualifyingResults")
        IN  IF IsExc(g) THEN g
            ELSE IF Truthy(g)
            THEN Fixed("get_qualifying_results",
                       "No qualifying data found for {year} round {round_num}.")
            ELSE IF IsExc(race_table) THEN race_table
            ELSE IF IsExc(races) THEN races
            ELSE IF IsExc(none) THEN none
            ELSE IF Truthy(none)
            THEN Fixed("get_qualifying_results",
                       "No qualifying results found for {year} round {round_num}.")
            ELSE QualifyingBody(First(races))

(***************************************************************************)
(* Counting shared by get_driver_profile and compare_drivers               *)
(***************************************************************************)
\* x == 'tok'
IsStr(x, tok) == x.t = "str" /\ x.v = <<tok>>

\* q[-n:]
LastN(q, n) == SubSeq(q, IF Len(q) > n THEN Len(q) - n + 1 ELSE 1, Len(q))

NoTally == [t |-> "ok", wins |-> 0, podiums |-> 0, points |-> 0, dnfs |-> 0,
            fastest_laps |-> 0]

RECURSIVE TallyRaces(_, _)
\* `for race in races: for result in race.get('Results', []):`
TallyRaces(races, acc) ==
    LET
        \* one result of one race: int(position) is tried and only ValueError is caught;
        \* int(points) is tried and ValueError and TypeError are caught
        ResultTally(res, tally) ==
            LET position == Get(res, "position", S("N/A"))
                With_fastest_lap(pos_int, points, fastest_lap) ==
                    LET counted == /\ ~IsStr(position, "N/A")
                                   /\ ~IsExc(pos_int)
                    IN  IF IsExc(position) THEN position
                        ELSE IF ~IsStr(position, "N/A") /\ IsExc(pos_int) /\ pos_int.cls # "ValueError"
                        THEN pos_int
                        ELSE [t |-> "ok",
                              wins |-> tally.wins + (IF counted /\ pos_int.v = 1 THEN 1 ELSE 0),
                              podiums |-> tally.podiums + (IF counted /\ pos_int.v <= 3 THEN 1 ELSE 0),
                              dnfs |-> tally.dnfs + (IF IsStr(position, "N/A") THEN 1 ELSE 0),
                              points |-> tally.points + (IF IsExc(points) THEN 0 ELSE points.v),
                              fastest_laps |-> tally.fastest_laps +
                                  (IF fastest_lap.t = "dict" /\ IsStr(Get(fastest_lap, "rank", None), "1")
                                   THEN 1 ELSE 0)]
            IN  With_fastest_lap(
                    PyInt(position),
                    PyInt(Get(res, "points", JNum(0))),
                    Get(res, "FastestLap", None))
        RECURSIVE TallyResults(_, _)
        TallyResults(results, tally) ==
            IF results = <<>> THEN tally
            ELSE LET With_a(a) ==
                         IF IsExc(a) THEN a ELSE TallyResults(Tail(results), a)
                 IN  With_a(ResultTally(Head(results), tally))
    IN  IF races = <<>> THEN acc
        ELSE LET it == Then(Get(Head(races), "Results", JList(<<>>)),
                            PyIter(Get(Head(races), "Results", JList(<<>>))))
                 With_a(a) ==
                     IF IsExc(it) THEN it
                     ELSE IF IsExc(a) THEN a ELSE TallyRaces(Tail(races), a)
             IN  With_a(TallyResults(it.v, acc))

(***************************************************************************)
(* driver_tools.py: get_driver_profile                                     *)
(***************************************************************************)
\* lines 26-38: the checks on the driver envelope; ok carries the driver
ProfileDriver(driver_data) ==
    LET With_drivers(g, drivers) ==
            LET With_driver(driver) ==
                    IF IsExc(g) THEN g
                    ELSE IF Truthy(g)
                    THEN Fixed("get_driver_profile", "Invalid API response for driver '{driver_id}'")
                    ELSE IF IsExc(drivers) THEN drivers
                    ELSE IF ~Truthy(drivers)
                    THEN Fixed("get_driver_profile", "No driver found with ID '{driver_id}'.")
                    ELSE Then(driver,
                         Then(Get(driver, "givenName", S("Unknown")),
                              [t |-> "ok", driver |-> driver]))
            IN  With_driver(First(drivers))
    IN  With_drivers(
            Guard2(driver_data),
            Walk(driver_data, <<Key("MRData"), GetOr("DriverTable", EmptyDict),
                                GetOr("Drivers", JList(<<>>))>>))

\* the handler after its fetches: the driver envelope, the aggregated standings
\* and the results envelope (both None when the inner try caught an exception)
get_driver_profile(driver_data, standings_data, results_data) ==
    LET
        \* lines 71-113: the Championship History section
        ProfileHistory ==
            LET
                \* lines 80-97: one season of the standings; a row, a skipped season, or an exception
                SeasonRow(season_standings) ==
                    LET driver_standings == Get(season_standings, "DriverStandings", JList(<<>>))
                        standing == First(driver_standings)
                        position == Get(standing, "position", S("N/A"))
                        points == PyInt(Get(standing, "points", JNum(0)))
                        wins == PyInt(Get(standing, "wins", JNum(0)))
                    IN  IF IsExc(driver_standings) THEN driver_standings
                        ELSE IF ~Truthy(driver_standings) THEN [t |-> "skip"]
                        ELSE IF IsExc(standing) THEN standing
                        ELSE IF IsExc(position) THEN position
                        ELSE IF IsExc(points) \/ IsExc(wins) THEN [t |-> "skip"]
                        ELSE [t |-> "row", season |-> Get(season_standings, "season", S("Unknown")),
                              position |-> position, points |-> points.v, wins |-> wins.v]
            IN  LET standings_lists == Walk(standings_data,
                                            <<Key("MRData"), GetOr("StandingsTable", EmptyDict),
                                              GetOr("StandingsLists", JList(<<>>))>>)
                    it == PyIter(standings_lists)
                    rows == [i \in 1..Len(it.v) |-> SeasonRow(it.v[i])]
                    With_recent_seasons(has, recent_seasons) ==
                        IF ~Truthy(standings_data) THEN [t |-> "ok", kind |-> "Data unavailable"]
                        ELSE IF IsExc(has) THEN has
                        ELSE IF ~Truthy(has) THEN [t |-> "ok", kind |-> "Data unavailable"]
                        ELSE IF IsExc(standings_lists) THEN standings_lists
                        ELSE IF ~Truthy(standings_lists) THEN [t |-> "ok", kind |-> "No data available"]
                        ELSE Then(PyLen(standings_lists),
                             Then(ForEach(standings_lists,
                                          [item \in Items(standings_lists) |-> SeasonRow(item)]),
                                  [t |-> "ok", kind |-> "listed",
                                   championships |->
                                       Cardinality({ i \in DOMAIN recent_seasons :
                                                       IsStr(recent_seasons[i].position, "1") }),
                                   shown |-> LastN(recent_seasons, 5)]))
                IN  With_recent_seasons(
                        PyIn(standings_data, "MRData"),
                        SelectSeq(rows, LAMBDA r : r.t = "row"))
        \* lines 116-186: the Career Statistics section
        ProfileStatistics ==
            LET RECURSIVE WinRows(_)
                \* lines 170-175: one (season, race_name) for every result with position '1'
                WinRows(races) ==
                    IF races = <<>> THEN <<>>
                    ELSE LET race == Head(races)
                             it == PyIter(Get(race, "Results", JList(<<>>)))
                             won == SelectSeq(it.v, LAMBDA r : IsStr(Get(r, "position", None), "1"))
                         IN  [i \in 1..Len(won) |->
                                [season |-> Get(race, "season", S("Unknown")),
                                 race_name |-> Get(race, "raceName", S("Unknown Race"))]]
                               \o WinRows(Tail(races))
                \* recent_wins[-5:] of the wins among races[-20:]
                RecentWins(races) == LastN(WinRows(LastN(races, 20)), 5)
            IN  LET With_races(has, races) ==
                        LET it == PyIter(races)
                            With_tally(tally) ==
                                IF ~Truthy(results_data) THEN [t |-> "ok", kind |-> "Data unavailable"]
                                ELSE IF IsExc(has) THEN has
                                ELSE IF ~Truthy(has) THEN [t |-> "ok", kind |-> "Data unavailable"]
                                ELSE IF IsExc(races) THEN races
                                ELSE IF ~Truthy(races) THEN [t |-> "ok", kind |-> "No race data available"]
                                ELSE Then(PyLen(races),
                                     Then(it,
                                     Then(tally,
                                     Then(Slice(races, 20),
                                          [t |-> "ok", kind |-> "listed", total_races |-> PyLen(races).v,
                                           wins |-> tally.wins, podiums |-> tally.podiums,
                                           points_total |-> tally.points, dnfs |-> tally.dnfs,
                                           recent_wins |-> RecentWins(it.v)]))))
                        IN  With_tally(TallyRaces(it.v, NoTally))
                IN  With_races(
                        PyIn(results_data, "MRData"),
                        Walk(results_data, <<Key("MRData"), GetOr("RaceTable", EmptyDict),
                                             GetOr("Races", JList(<<>>))>>))
    IN  LET With_statistics(checked, history, statistics) ==
                IF checked.t # "ok" THEN checked
                ELSE Then(Subscript(checked.driver, "nationality"),
                     Then(history,
                     Then(statistics,
                          Block("get_driver_profile",
                                [driver |-> checked.driver, history |-> history,
                                 statistics |-> statistics]))))
        IN  With_statistics(ProfileDriver(driver_data), ProfileHistory, ProfileStatistics)

(***************************************************************************)
(* driver_tools.py: get_driver_season_performance                          *)
(***************************************************************************)
\* lines 206-213: the checks on the results envelope, made before the other fetches
SeasonRaces(results_data) ==
    LET g == Guard2(results_data)
        race_table == Path(results_data, <<"MRData", "RaceTable">>)
        races == Get(race_table, "Races", JList(<<>>))
    IN  IF IsExc(g) THEN g
        ELSE IF Truthy(g)
        THEN Fixed("get_driver_season_performance",
                   "No data found for driver '{driver_id}' in {year} season.")
        ELSE IF IsExc(race_table) THEN race_table
        ELSE IF IsExc(races) THEN races
        ELSE IF ~Truthy(races)
        THEN Fixed("get_driver_season_performance",
                   "No race results found for driver '{driver_id}' in {year}.")
        ELSE [t |-> "ok", races |-> races]

\* the handler after its three fetches
get_driver_season_performance(results_data, standings_data, driver_data) ==
    LET
        \* lines 220-223: the name; both names are subscripted
        SeasonDriverName ==
            LET has == PyIn(driver_data, "MRData")
                drivers == Path(driver_data, <<"MRData", "DriverTable", "Drivers">>)
            IN  IF ~Truthy(driver_data) THEN S("Unknown Driver")
                ELSE IF IsExc(has) THEN has
                ELSE IF ~Truthy(has) THEN S("Unknown Driver")
                ELSE IF IsExc(drivers) THEN drivers
                ELSE IF ~Truthy(drivers) THEN S("Unknown Driver")
                ELSE Then(Walk(drivers, <<Idx0, Key("givenName")>>),
                     Then(Walk(drivers, <<Idx0, Key("familyName")>>),
                          JList(<<Walk(drivers, <<Idx0, Key("givenName")>>),
                                  Walk(drivers, <<Idx0, Key("familyName")>>)>>)))
        \* lines 238-259: one race of the season; int() is not guarded here
        SeasonRaceRow(race) ==
            LET results == Subscript(race, "Results")
                res == First(results)
                position == Get(res, "position", S("N/A"))
                points == PyInt(Get(res, "points", JNum(0)))
                pos_int == PyInt(position)
            IN  IF IsExc(results) THEN results
                ELSE IF ~Truthy(results) THEN [t |-> "skip"]
                ELSE Then(res,
                     Then(position,
                     Then(points,
                     Then(IF IsStr(position, "N/A") THEN Ok ELSE pos_int,
                     Then(ReadAll(race, << <<"round">>, <<"raceName">> >>),
                          [t |-> "row", round |-> Subscript(race, "round"),
                           race_name |-> Subscript(race, "raceName"),
                           position |-> position, points |-> points.v,
                           status |-> Get(res, "status", S("Unknown")),
                           pos_int |-> IF IsStr(position, "N/A") THEN 0 ELSE pos_int.v])))))
        \* lines 262-266: the final championship position
        SeasonFinalPosition ==
            LET standings_lists == Path(standings_data,
                                        <<"MRData", "StandingsTable", "StandingsLists">>)
                With_last(has, last) ==
                    IF ~Truthy(standings_data) THEN S("N/A")
                    ELSE IF IsExc(has) THEN has
                    ELSE IF ~Truthy(has) THEN S("N/A")
                    ELSE IF IsExc(standings_lists) THEN standings_lists
                    ELSE IF ~Truthy(standings_lists) THEN S("N/A")
                    ELSE IF IsExc(last) THEN last
                    ELSE IF ~Truthy(last) THEN S("N/A")
                    ELSE Walk(last, <<Idx0, Key("position")>>)
            IN  With_last(
                    PyIn(standings_data, "MRData"),
                    Walk(standings_lists, <<IdxLast, Key("DriverStandings")>>))
        RECURSIVE SumPoints(_)
        SumPoints(rows) == IF rows = <<>> THEN 0 ELSE Head(rows).points + SumPoints(Tail(rows))
    IN  LET checked == SeasonRaces(results_data)
            it == PyIter(checked.races)
            rows == [i \in 1..Len(it.v) |-> SeasonRaceRow(it.v[i])]
            With_final_position(driver_name, race_results, final_position) ==
                LET classified == SelectSeq(race_results, LAMBDA r : ~IsStr(r.position, "N/A"))
                    key_races == SelectSeq(race_results, LAMBDA r : IsStr(r.position, "1"))
                                   \o SelectSeq(race_results,
                                                LAMBDA r : IsStr(r.position, "2") \/ IsStr(r.position, "3"))
                IN  IF checked.t # "ok" THEN checked
                    ELSE Then(driver_name,
                         Then(PyLen(checked.races),
                         Then(ForEach(checked.races,
                                      [item \in Items(checked.races) |-> SeasonRaceRow(item)]),
                         Then(final_position,
                              Block("get_driver_season_performance",
                                    [driver_name |-> driver_name, final_position |-> final_position,
                                     total_points |-> SumPoints(race_results),
                                     total_races |-> PyLen(checked.races).v,
                                     wins |-> Len(SelectSeq(classified, LAMBDA r : r.pos_int = 1)),
                                     podiums |-> Len(SelectSeq(classified, LAMBDA r : r.pos_int <= 3)),
                                     points_finishes |->
                                         Len(SelectSeq(classified, LAMBDA r : r.points > 0)),
                                     dnfs |-> Len(race_results) - Len(classified),
                                     best_finish |->
                                         IF \E i \in DOMAIN classified : classified[i].pos_int < 99
                                         THEN CHOOSE b \in { classified[i].pos_int : i \in DOMAIN classified } :
                                                  \A i \in DOMAIN classified : b <= classified[i].pos_int
                                         ELSE 99,
                                     key_races |-> SubSeq(key_races, 1,
                                                          IF Len(key_races) < 5 THEN Len(key_races) ELSE 5),
                                     more |-> IF Len(key_races) > 5 THEN Len(key_races) - 5 ELSE 0])))))
        IN  With_final_position(
                SeasonDriverName,
                SelectSeq(rows, LAMBDA r : r.t = "row"),
                SeasonFinalPosition)

(***************************************************************************)
(* analysis_tools.py: compare_drivers                                      *)
(***************************************************************************)
\* lines 184-205: both envelopes are checked, then both names are read
CompareDrivers(driver1_id, driver2_id, driver1_data, driver2_data) ==
    LET
        \* lines 184-189 and 193-198: the checks on one driver envelope
        CompareDriver(driver_id, driver_data) ==
            LET With_drivers(g, drivers) ==
                    IF IsExc(g) THEN g
                    ELSE IF Truthy(g)
                    THEN Fixed("compare_drivers", "Invalid API response for driver '" \o driver_id \o "'")
                    ELSE IF IsExc(drivers) THEN drivers
                    ELSE IF ~Truthy(drivers)
                    THEN Fixed("compare_drivers", "Driver '" \o driver_id \o "' not found.")
                    ELSE [t |-> "ok", drivers |-> drivers]
            IN  With_drivers(
                    Guard2(driver_data),
                    Walk(driver_data, <<Key("MRData"), GetOr("DriverTable", EmptyDict),
                                        GetOr("Drivers", JList(<<>>))>>))
    IN  LET With_c2(c1, c2) ==
                LET driver1 == First(c1.drivers)
                    driver2 == First(c2.drivers)
                IN  IF c1.t # "ok" THEN c1
                    ELSE IF c2.t # "ok" THEN c2
                    ELSE Then(driver1,
                         Then(driver2,
                         Then(Get(driver1, "givenName", S("Unknown")),
                         Then(Get(driver2, "givenName", S("Unknown")),
                              [t |-> "ok", driver1 |-> driver1, driver2 |-> driver2]))))
        IN  With_c2(
                CompareDriver(driver1_id, driver1_data),
                CompareDriver(driver2_id, driver2_data))

\* the handler after its six fetches
compare_drivers(driver1_id, driver2_id, driver1_data, driver2_data, driver1_results, driver2_results, driver1_standings, driver2_standings) ==
    LET
        \* calculate_stats(results_data, standings_data, driver_name)
        calculate_stats(results_data, standings_data) ==
            LET
                \* lines 286-302: one season of the standings; int() failures are caught
                ChampionshipOf(season_standings) ==
                    LET driver_standings == Get(season_standings, "DriverStandings", JList(<<>>))
                        With_standing(standing) ==
                            LET raw == Get(standing, "position", JNum(99))
                                With_position(position) ==
                                    IF IsExc(driver_standings) THEN driver_standings
                                    ELSE IF ~Truthy(driver_standings) THEN [t |-> "skip"]
                                    ELSE IF IsExc(standing) THEN standing
                                    ELSE IF IsExc(raw) THEN raw
                                    ELSE IF IsExc(position) THEN [t |-> "skip"]
                                    ELSE [t |-> "row", position |-> position.v]
                            IN  With_position(PyInt(raw))
                    IN  With_standing(First(driver_standings))
            IN  LET has == PyIn(results_data, "MRData")
                    races == Walk(results_data, <<Key("MRData"), GetOr("RaceTable", EmptyDict),
                                                  GetOr("Races", JList(<<>>))>>)
                    counted == Truthy(results_data) /\ Truthy(has)
                    it == PyIter(races)
                    has2 == PyIn(standings_data, "MRData")
                    standings_lists == Walk(standings_data,
                                            <<Key("MRData"), GetOr("StandingsTable", EmptyDict),
                                              GetOr("StandingsLists", JList(<<>>))>>)
                    ranked == Truthy(standings_data) /\ Truthy(has2)
                    its == PyIter(standings_lists)
                    With_rows(tally, rows) ==
                        Then(IF Truthy(results_data) THEN has ELSE Ok,
                        Then(IF counted THEN Then(races, Then(PyLen(races), Then(it, tally))) ELSE Ok,
                        Then(IF Truthy(standings_data) THEN has2 ELSE Ok,
                        Then(IF ranked
                             THEN Then(standings_lists, ForEach(standings_lists,
                                                                [item \in Items(standings_lists) |->
                                                                   ChampionshipOf(item)]))
                             ELSE Ok,
                             [t |-> "ok", races |-> IF counted THEN PyLen(races).v ELSE 0,
                              wins |-> tally.wins, podiums |-> tally.podiums, points |-> tally.points,
                              dnfs |-> tally.dnfs, fastest_laps |-> tally.fastest_laps,
                              championships |->
                                  Cardinality({ i \in DOMAIN rows : rows[i].position = 1 }),
                              best_championship_pos |->
                                  IF \E i \in DOMAIN rows : rows[i].position < 99
                                  THEN CHOOSE b \in { rows[i].position : i \in DOMAIN rows } :
                                           \A i \in DOMAIN rows : b <= rows[i].position
                                  ELSE 99]))))
                IN  With_rows(
                        IF counted THEN TallyRaces(it.v, NoTally) ELSE NoTally,
                        IF ranked
                        THEN SelectSeq([i \in 1..Len(its.v) |-> ChampionshipOf(its.v[i])],
                                       LAMBDA r : r.t = "row")
                        ELSE <<>>)
    IN  LET checked == CompareDrivers(driver1_id, driver2_id, driver1_data, driver2_data)
            stats1 == calculate_stats(driver1_results, driver1_standings)
            stats2 == calculate_stats(driver2_results, driver2_standings)
        IN  IF checked.t # "ok" THEN checked
            ELSE Then(stats1,
                 Then(stats2,
                      Block("compare_drivers",
                            [driver1 |-> checked.driver1, driver2 |-> checked.driver2,
                             stats1 |-> stats1, stats2 |-> stats2])))

(***************************************************************************)
(* The tool calls, and what the upstream can answer to them                *)
(***************************************************************************)
\* the arguments of the calls; a year is None or a number
ToolCalls ==
    LET ToolDrivers == {"hamilton", "doe"}
        \* the round numbers: the sentinel, the default and a later round
        RoundNumbers == {0, 1, 12}
        NoArgumentTools ==
            {"get_next_race", "get_race_schedule", "get_latest_race_results", "get_all_seasons",
             "get_all_circuits", "get_current_drivers", "get_current_constructors",
             "get_status_codes"}
        RoundTools ==
            {"get_sprint_results", "get_pitstops", "get_lap_times", "get_race_analysis",
             "get_qualifying_results"}
    IN  { [fn |-> f] : f \in NoArgumentTools }
          \cup { [fn |-> f, year |-> y] :
                   f \in {"get_current_standings", "get_constructor_standings"},
                   y \in {None, JNum(2021)} }
          \cup { [fn |-> "get_historical_schedule", year |-> JNum(2021)] }
          \cup { [fn |-> f, year |-> JNum(2021), round_num |-> n] : f \in RoundTools, n \in RoundNumbers }
          \cup { [fn |-> "get_driver_profile", driver_id |-> d] : d \in ToolDrivers }
          \cup { [fn |-> "get_driver_season_performance", driver_id |-> d, year |-> JNum(2024)] :
                   d \in ToolDrivers }
          \cup { [fn |-> "compare_drivers", driver1_id |-> "hamilton", driver2_id |-> "doe",
                  year |-> y] : y \in {JNum(0), JNum(2021)} }
          \cup { [fn |-> "compare_drivers", driver1_id |-> "hamilton", driver2_id |-> "hamilton",
                  year |-> JNum(0)] }

\* the <action> of the handler's "Failed to <action>: ..." text
Action(c) ==
    CASE c.fn = "get_next_race" -> "get next race"
      [] c.fn = "get_race_schedule" -> "get race schedule"
      [] c.fn = "get_latest_race_results" -> "get race results"
      [] c.fn = "get_current_standings" -> "get standings"
      [] c.fn = "get_constructor_standings" -> "get constructor standings"
      [] c.fn = "get_historical_schedule" -> "get " \o ToString(c.year.v) \o " schedule"
      [] c.fn = "get_all_seasons" -> "get seasons"
      [] c.fn = "get_all_circuits" -> "get circuits"
      [] c.fn = "get_current_drivers" -> "get current drivers"
      [] c.fn = "get_current_constructors" -> "get current constructors"
      [] c.fn = "get_sprint_results" -> "get sprint results"
      [] c.fn = "get_pitstops" -> "get pit stop data"
      [] c.fn = "get_lap_times" -> "get lap times"
      [] c.fn = "get_status_codes" -> "get status codes"
      [] c.fn = "get_race_analysis" -> "get race analysis"
      [] c.fn = "get_qualifying_results" -> "get qualifying results"
      [] c.fn = "get_driver_profile" -> "get driver profile"
      [] c.fn = "get_driver_season_performance" -> "get driver season performance"
      [] c.fn = "compare_drivers" -> "compare drivers"

\* mutant: the handler has no outer except clause
HandlerExcept_reraises(c, x) == x

\* `except Exception as e: return f"Failed to <action>: {str(e)}"`
HandlerExcept(c, x) == IF IsExc(x) THEN Failed(Action(c), x) ELSE x

\* the round number is passed through, 0 included
RoundIdentifier_no_sentinel(round_num) == ToString(round_num)

\* round_identifier = 'last' if round_num == 0 else str(round_num)
RoundIdentifier(round_num) == IF round_num = 0 THEN "last" ELSE ToString(round_num)

\* the endpoint of the fetch the handler awaits at `label`
ToolEndpoint(c, label) ==
    LET
        \* `if year is None: "current/..."  else: f"{year}/..."`
        YearOrCurrent(year) == IF year.t = "None" THEN "current" ELSE ToString(year.v)
    IN  CASE c.fn \in {"get_next_race", "get_race_schedule"} -> <<"current">>
          [] c.fn = "get_latest_race_results" -> <<"current", "/", "last", "/", "results">>
          [] c.fn = "get_current_standings" -> <<YearOrCurrent(c.year), "/", "driverStandings">>
          [] c.fn = "get_constructor_standings" ->
               <<YearOrCurrent(c.year), "/", "constructorStandings">>
          [] c.fn = "get_historical_schedule" -> <<ToString(c.year.v)>>
          [] c.fn = "get_all_seasons" -> <<"seasons">>
          [] c.fn = "get_all_circuits" -> <<"circuits">>
          [] c.fn = "get_current_drivers" -> <<"current", "/", "drivers">>
          [] c.fn = "get_current_constructors" -> <<"current", "/", "constructors">>
          [] c.fn = "get_status_codes" -> <<"status">>
          [] c.fn = "get_sprint_results" ->
               <<ToString(c.year.v), "/", RoundIdentifier(c.round_num), "/", "sprint">>
          [] c.fn = "get_pitstops" ->
               <<ToString(c.year.v), "/", ToString(c.round_num), "/", "pitstops">>
          [] c.fn = "get_lap_times" ->
               <<ToString(c.year.v), "/", ToString(c.round_num), "/", "laps">>
          [] c.fn = "get_qualifying_results" ->
               <<ToString(c.year.v), "/", RoundIdentifier(c.round_num), "/", "qualifying">>
          [] c.fn = "get_race_analysis" ->
               <<ToString(c.year.v), "/", RoundIdentifier(c.round_num), "/", label>>
          [] c.fn = "get_driver_profile" ->
               IF label = "driver" THEN <<"drivers", "/", c.driver_id>>
               ELSE <<"drivers", "/", c.driver_id, "/", "results">>
          [] c.fn = "get_driver_season_performance" ->
               (CASE label = "results" ->
                       <<ToString(c.year.v), "/", "drivers", "/", c.driver_id, "/", "results">>
                  [] label = "standings" ->
                       <<ToString(c.year.v), "/", "drivers", "/", c.driver_id, "/",
                         "driverStandings">>
                  [] label = "driver" -> <<"drivers", "/", c.driver_id>>)
          [] c.fn = "compare_drivers" ->
               LET id == IF label \in {"driver1", "results1", "standings1"}
                         THEN c.driver1_id ELSE c.driver2_id
                   season == IF c.year.v = 0 THEN <<>> ELSE <<ToString(c.year.v), "/">>
               IN  CASE label \in {"driver1", "driver2"} -> <<"drivers", "/", id>>
                     [] label \in {"results1", "results2"} ->
                          season \o <<"drivers", "/", id, "/", "results">>
                     [] label \in {"standings1", "standings2"} ->
                          season \o <<"drivers", "/", id, "/", "driverStandings">>

\* the envelopes the upstream may send to the fetch awaited at `label`
ToolEnvelopes(c, label) ==
    LET Circuit ==
            JDict([circuitId |-> S("bahrain"), circuitName |-> S("Sakhir"),
                   Location |-> JDict([locality |-> S("Sakhir"), country |-> S("Bahrain")])])
        Driver(id) ==
            JDict([driverId |-> S(id), givenName |-> S("Given"), familyName |-> S(id),
                   nationality |-> S("British"), code |-> S("XXX")])
        Constructor == JDict([constructorId |-> S("mercedes"), name |-> S("Mercedes"),
                              nationality |-> S("German")])
        \* a classified result, with the finishing time or only the status
        Result(position, points, timed) ==
            JDict([position |-> S(position), points |-> S(points), status |-> S("Finished"),
                   Driver |-> Driver("hamilton"), Constructor |-> Constructor]
                  @@ (IF timed THEN "Time" :> JDict([time |-> S("1:30:00.000")]) ELSE <<>>))
        QualifyingResult(position, session) ==
            JDict([position |-> S(position), Driver |-> Driver("hamilton"),
                   Constructor |-> Constructor]
                  @@ (IF session = "none" THEN <<>> ELSE session :> S("1:29.5")))
        PitStopOf(driverId, duration) ==
            JDict([driverId |-> S(driverId), lap |-> S("18"), stop |-> S("1"),
                   duration |-> S(duration)])
        Timing(driverId, minutes, seconds) ==
            JDict([driverId |-> S(driverId), position |-> S("1"),
                   time |-> JStr(<<minutes, ":", seconds>>)])
        Lap(number, timings) == JDict([number |-> S(number), Timings |-> JList(timings)])
        \* a race of the calendar, with the lists a detail endpoint adds
        Race(date, lists) ==
            JDict([season |-> S("2024"), round |-> S("1"), raceName |-> S("Bahrain Grand Prix"),
                   date |-> S(date), Circuit |-> Circuit] @@ lists)
        \* the envelopes for an endpoint whose table is `table` and whose list is `itemsKey`
        Envelopes(table, itemsKey, lists) ==
            {JNull, JNum(0), EmptyDict, JDict("Other" :> JNull),
             JDict("MRData" :> JNull), JDict("MRData" :> EmptyDict),
             JDict("MRData" :> JDict("total" :> S("0"))),
             JDict("MRData" :> JDict(table :> JNull)),
             JDict("MRData" :> JDict(table :> EmptyDict)),
             JDict("MRData" :> JDict(table :> JDict("season" :> S("2024"))))}
              \cup { JDict("MRData" :> JDict(table :> JDict(itemsKey :> x))) :
                       x \in {JList(<<>>), JNum(3)} }
              \cup { JDict("MRData" :> JDict(table :> JDict((itemsKey :> JList(l))
                                                              @@ ("season" :> S("2024"))))) :
                       l \in lists \cup {<<>>, <<EmptyDict>>} }
        \* a smaller family, for the tools that make several fetches
        FewEnvelopes(table, itemsKey, lists) ==
            {EmptyDict, JDict("Other" :> JNull), JNum(0), JDict("MRData" :> EmptyDict)}
              \cup { JDict("MRData" :> JDict(table :> JDict(itemsKey :> JList(l)))) :
                       l \in lists \cup {<<>>} }
        \* race lists of the schedule endpoints; "TBC" is not an ISO date
        ScheduleLists ==
            { <<Race("2025-03-16", <<>>), Race("2025-12-07", <<>>)>>,
              <<Race("2026-03-08", <<>>), Race("2025-06-15", <<>>)>>,
              <<Race("2025-03-16", <<>>)>>,
              <<Race("2025-03-16", <<>>), Race("2025-06-15", <<>>), Race("2025-12-07", <<>>)>>,
              <<Race("TBC", <<>>)>> }
        WithResults(results) == Race("2025-03-16", "Results" :> JList(results))
        \* race lists of a results endpoint of one race
        ResultLists ==
            { <<WithResults(<<Result("1", "25", TRUE), Result("2", "18", FALSE)>>)>>,
              <<WithResults([i \in 1..11 |-> Result(ToString(i), "0", FALSE)])>>,
              <<WithResults(<<Result("R", "0", FALSE)>>)>>,
              <<WithResults(<<EmptyDict>>)>>,
              <<WithResults(<<>>)>>,
              <<Race("2025-03-16", <<>>)>> }
        \* race lists of a results endpoint of one driver: one result per race
        DriverResultLists ==
            { <<WithResults(<<Result("1", "25", TRUE)>>), WithResults(<<Result("3", "12.5", TRUE)>>),
                WithResults(<<Result("R", "0", FALSE)>>)>>,
              <<WithResults(<<Result("2", "18", TRUE)>>), WithResults(<<>>)>>,
              <<WithResults(<<Result("1", "25", TRUE)>>), WithResults(<<Result("R", "0", FALSE)>>)>>,
              <<WithResults(<<Result("1", "25", TRUE)>>), WithResults(<<Result("2", "12.5", TRUE)>>)>>,
              <<WithResults(<<JDict([points |-> S("1")])>>)>>,
              <<Race("2025-03-16", <<>>)>> }
        WithQualifying(results) == Race("2025-03-16", "QualifyingResults" :> JList(results))
        QualifyingLists ==
            { <<WithQualifying(<<QualifyingResult("2", "Q3"), QualifyingResult("18", "Q1"),
                                 QualifyingResult("1", "Q3"), QualifyingResult("3", "none"),
                                 QualifyingResult("4", "Q2")>>)>>,
              <<WithQualifying(<<QualifyingResult("P", "Q2")>>)>>,
              <<WithQualifying(<<QualifyingResult("P", "none")>>)>>,
              <<Race("2025-03-16", <<>>)>> }
        SprintLists ==
            { <<Race("2025-03-16", "SprintResults" :>
                     JList(<<Result("1", "8", TRUE), Result("2", "7", FALSE)>>))>>,
              <<Race("2025-03-16", "SprintResults" :> JList(<<EmptyDict>>))>>,
              <<Race("2025-03-16", <<>>)>> }
        PitStopLists ==
            { <<Race("2025-03-16", "PitStops" :>
                     JList(<<PitStopOf("hamilton", "3.1"), PitStopOf("verstappen", "2.5"),
                             PitStopOf("hamilton", "2.5")>>))>>,
              <<Race("2025-03-16", "PitStops" :> JList(<<PitStopOf("hamilton", "slow")>>))>>,
              <<Race("2025-03-16", "PitStops" :> JList(<<JDict([driverId |-> S("hamilton")])>>))>>,
              <<Race("2025-03-16", <<>>)>> }
        LapLists ==
            { <<Race("2025-03-16", "Laps" :>
                     JList(<<Lap("1", <<Timing("hamilton", "1", "36.0"),
                                        Timing("verstappen", "1", "35.1")>>),
                             Lap("2", <<Timing("hamilton", "1", "35.1"),
                                        Timing("verstappen", "x", "35.1")>>)>>))>>,
              <<Race("2025-03-16", "Laps" :> JList(<<
                             Lap("1", <<JDict([driverId |-> S("hamilton"), position |-> S("1")]),
                                        Timing("verstappen", "1", "36.0")>>),
                             Lap("2", <<Timing("hamilton", "1", "35.1")>>)>>))>>,
              <<Race("2025-03-16", "Laps" :> JList(<<
                             Lap("1", <<JDict([driverId |-> S("hamilton"), position |-> S("1")]),
                                        Timing("verstappen", "x", "35.1"),
                                        JDict([driverId |-> S("hamilton"), position |-> S("3"),
                                               time |-> JStr(<<"1", ":", "35", ":", "1">>)])>>)>>))>>,
              <<Race("2025-03-16", "Laps" :> JList(<<Lap("1", <<JDict([time |-> JNum(95)])>>)>>))>>,
              <<Race("2025-03-16", "Laps" :> JList(<<EmptyDict>>))>>,
              <<Race("2025-03-16", <<>>)>> }
        DriverStandingOf(position, constructors) ==
            JDict([position |-> S(position), points |-> S("25"), wins |-> S("1"),
                   Driver |-> Driver("hamilton"), Constructors |-> JList(constructors)])
        DriverStandingsLists ==
            { <<JDict([season |-> S("2024"),
                       DriverStandings |-> JList(<<DriverStandingOf("1", <<Constructor>>),
                                                   DriverStandingOf("2", <<>>)>>)])>>,
              <<JDict([season |-> S("2024"), DriverStandings |-> JList(<<EmptyDict>>)])>>,
              <<JDict([season |-> S("2024")])>> }
        ConstructorStandingsLists ==
            { <<JDict([season |-> S("2024"),
                       ConstructorStandings |->
                           JList(<<JDict([position |-> S("1"), points |-> S("25"),
                                          wins |-> S("1"), Constructor |-> Constructor])>>)])>>,
              <<JDict([season |-> S("2024"), ConstructorStandings |-> JList(<<EmptyDict>>)])>>,
              <<JDict([season |-> S("2024")])>> }
        \* the standings of one driver in one season, as the driverStandings endpoint lists them
        OneDriverStandingsLists ==
            { <<StandingsEntry(2024, "1")>>, <<StandingsEntry(2024, "2"), StandingsEntry(2024, "x")>>,
              <<JDict([season |-> S("2024"), DriverStandings |-> JList(<<>>)])>> }
        DriverLists(id) ==
            { <<Driver(id)>>, <<JDict([driverId |-> S(id), familyName |-> S(id)])>>,
              <<Driver(id), JDict([driverId |-> S("other"), nationality |-> JNull])>> }
        SeasonLists ==
            { <<JDict([season |-> S("1950")]), JDict([season |-> S("2024")])>>,
              <<JDict([season |-> S("n/a")])>> }
        CircuitLists ==
            { <<Circuit, JDict([circuitId |-> S("x")])>>,
              <<Circuit, JDict([circuitName |-> JNull, Location |-> Circuit.v["Location"]])>>,
              <<JDict([Location |-> JNull])>> }
        ConstructorLists ==
            { <<Constructor, JDict([name |-> S("Ferrari")])>>, <<Constructor, JDict([name |-> JNull])>>,
              <<JNull>> }
        StatusLists ==
            { <<JDict([statusId |-> S("1"), status |-> JStr(<<"Finished">>)]),
                JDict([statusId |-> S("5"), status |-> JStr(<<"Engine">>)]),
                JDict([statusId |-> S("11"), status |-> JStr(<<"+1", "Lap">>)]),
                JDict([statusId |-> S("2"), status |-> JStr(<<"Disqualified">>)])>>,
              <<JDict([statusId |-> S("1"), status |-> JNull])>> }
    IN  CASE c.fn \in {"get_next_race", "get_race_schedule", "get_historical_schedule"} ->
               Envelopes("RaceTable", "Races", ScheduleLists)
          [] c.fn = "get_latest_race_results" -> Envelopes("RaceTable", "Races", ResultLists)
          [] c.fn = "get_current_standings" ->
               Envelopes("StandingsTable", "StandingsLists", DriverStandingsLists)
          [] c.fn = "get_constructor_standings" ->
               Envelopes("StandingsTable", "StandingsLists", ConstructorStandingsLists)
          [] c.fn = "get_all_seasons" -> Envelopes("SeasonTable", "Seasons", SeasonLists)
          [] c.fn = "get_all_circuits" -> Envelopes("CircuitTable", "Circuits", CircuitLists)
          [] c.fn = "get_current_drivers" ->
               Envelopes("DriverTable", "Drivers", DriverLists("hamilton"))
          [] c.fn = "get_current_constructors" ->
               Envelopes("ConstructorTable", "Constructors", ConstructorLists)
          [] c.fn = "get_status_codes" -> Envelopes("StatusTable", "Status", StatusLists)
          [] c.fn = "get_sprint_results" -> Envelopes("RaceTable", "Races", SprintLists)
          [] c.fn = "get_pitstops" -> Envelopes("RaceTable", "Races", PitStopLists)
          [] c.fn = "get_lap_times" -> Envelopes("RaceTable", "Races", LapLists)
          [] c.fn = "get_qualifying_results" ->
               Envelopes("RaceTable", "Races", QualifyingLists)
          [] c.fn = "get_race_analysis" ->
               IF label = "results" THEN Envelopes("RaceTable", "Races", ResultLists)
               ELSE FewEnvelopes("RaceTable", "Races", QualifyingLists)
          [] c.fn = "get_driver_profile" ->
               IF label = "driver"
               THEN Envelopes("DriverTable", "Drivers", DriverLists(c.driver_id))
               ELSE FewEnvelopes("RaceTable", "Races", DriverResultLists)
          [] c.fn = "get_driver_season_performance" ->
               (CASE label = "results" -> Envelopes("RaceTable", "Races", DriverResultLists)
                  [] label = "standings" ->
                       FewEnvelopes("StandingsTable", "StandingsLists", OneDriverStandingsLists)
                  [] label = "driver" ->
                       FewEnvelopes("DriverTable", "Drivers", DriverLists(c.driver_id)))
          [] c.fn = "compare_drivers" ->
               CASE label \in {"driver1", "driver2"} ->
                      FewEnvelopes("DriverTable", "Drivers",
                                   {<<Driver("x")>>, <<JStr(<<"x">>)>>})
                 [] label \in {"results1", "results2"} ->
                      FewEnvelopes("RaceTable", "Races",
                                   { l \in DriverResultLists : Len(l) > 1 })
                 [] label \in {"standings1", "standings2"} ->
                      FewEnvelopes("StandingsTable", "StandingsLists",
                                   { l \in OneDriverStandingsLists : Len(l) > 1 })

ToolResponses(c, label) ==
    LET
        \* the answers that are not a JSON body with a 2xx status
        ToolFailures ==
            { [k |-> "transport", why |-> "ReadTimeout"],
              [k |-> "unexpected", why |-> "InvalidURL"],
              Http(404, HtmlBody), Http(200, HtmlBody) }
    IN  ToolFailures \cup { Http(200, JsonBody(j)) : j \in ToolEnvelopes(c, label) }

\* the first await of the handler
FirstLabel(c) ==
    CASE c.fn \in {"get_race_analysis", "get_driver_season_performance"} -> "results"
      [] c.fn = "get_driver_profile" -> "driver"
      [] c.fn = "compare_drivers" -> "driver1"
      [] OTHER -> "fetch"

\* the awaits that are calls of get_driver_career_standings
IsCareerLabel(c, label) ==
    \/ c.fn = "get_driver_profile" /\ label = "career"
    \/ c.fn = "compare_drivers" /\ c.year.v = 0 /\ label \in {"standings1", "standings2"}

CareerDriver(c, label) ==
    IF c.fn = "get_driver_profile" THEN c.driver_id
    ELSE IF label = "standings1" THEN c.driver1_id ELSE c.driver2_id

Goto(label) == [t |-> "goto", pc |-> label]

\* the handlers that await one fetch, after that fetch returned
SingleFetch(c, data, clk) ==
    CASE c.fn = "get_next_race" -> get_next_race(data, clk)
      [] c.fn = "get_race_schedule" -> get_race_schedule(data, clk)
      [] c.fn = "get_latest_race_results" -> get_latest_race_results(data)
      [] c.fn = "get_current_standings" -> get_current_standings(data)
      [] c.fn = "get_constructor_standings" -> get_constructor_standings(data)
      [] c.fn = "get_historical_schedule" -> get_historical_schedule(data)
      [] c.fn = "get_all_seasons" -> get_all_seasons(data)
      [] c.fn = "get_all_circuits" -> get_all_circuits(data)
      [] c.fn = "get_current_drivers" -> get_current_drivers(data)
      [] c.fn = "get_current_constructors" -> get_current_constructors(data)
      [] c.fn = "get_status_codes" -> get_status_codes(data)
      [] c.fn = "get_sprint_results" -> get_sprint_results(data)
      [] c.fn = "get_pitstops" -> get_pitstops(data)
      [] c.fn = "get_lap_times" -> get_lap_times(data)
      [] c.fn = "get_qualifying_results" -> get_qualifying_results(data)

\* get_race_analysis checking the results envelope before it asks for the
\* qualifying: the fixed message is returned after one request
RaceAnalysisStep_checks_results_first(label, l) ==
    IF IsExc(l[label]) THEN l[label]
    ELSE IF label = "results"
    THEN IF Truthy(Guard2(l["results"])) /\ ~IsExc(Guard2(l["results"]))
         THEN Fixed("get_race_analysis", "No race data found for {year} round {round_num}.")
         ELSE Goto("qualifying")
    ELSE get_race_analysis(l["results"], l["qualifying"])

\* get_race_analysis: both fetches are awaited before either envelope is read
RaceAnalysisStep(label, l) ==
    IF IsExc(l[label]) THEN l[label]
    ELSE IF label = "results" THEN Goto("qualifying")
    ELSE get_race_analysis(l["results"], l["qualifying"])

\* get_driver_season_performance: the results are checked before the next fetch
SeasonPerformanceStep(label, l) ==
    IF IsExc(l[label]) THEN l[label]
    ELSE CASE label = "results" ->
                IF SeasonRaces(l["results"]).t = "ok" THEN Goto("standings")
                ELSE SeasonRaces(l["results"])
           [] label = "standings" -> Goto("driver")
           [] label = "driver" ->
                get_driver_season_performance(l["results"], l["standings"], l["driver"])

\* get_driver_profile without its inner try: a failure of the results fetch
\* reaches the handler's own except
DriverProfileStep_without_inner_try(label, l) ==
    CASE label = "driver" ->
           IF IsExc(l[label]) THEN l[label]
           ELSE IF ProfileDriver(l["driver"]).t = "ok" THEN Goto("career")
           ELSE ProfileDriver(l["driver"])
      [] label = "career" -> Goto("results")
      [] label = "results" ->
           IF IsExc(l[label]) THEN l[label]
           ELSE get_driver_profile(l["driver"], l["career"], l["results"])

\* get_driver_profile: the inner try sets both envelopes to None when the results
\* fetch raises (the aggregator does not raise)
DriverProfileStep(label, l) ==
    CASE label = "driver" ->
           IF IsExc(l[label]) THEN l[label]
           ELSE IF ProfileDriver(l["driver"]).t = "ok" THEN Goto("career")
           ELSE ProfileDriver(l["driver"])
      [] label = "career" -> Goto("results")
      [] label = "results" ->
           IF IsExc(l[label]) THEN get_driver_profile(l["driver"], None, None)
           ELSE get_driver_profile(l["driver"], l["career"], l["results"])

\* compare_drivers: both driver fetches are awaited before either envelope is read
CompareDriversStep(c, label, l) ==
    IF IsExc(l[label]) THEN l[label]
    ELSE CASE label = "driver1" -> Goto("driver2")
           [] label = "driver2" ->
                LET With_checked(checked) ==
                        IF checked.t = "ok" THEN Goto("results1") ELSE checked
                IN  With_checked(
                        CompareDrivers(c.driver1_id, c.driver2_id,
                                       l["driver1"], l["driver2"]))
           [] label = "results1" -> Goto("results2")
           [] label = "results2" -> Goto("standings1")
           [] label = "standings1" -> Goto("standings2")
           [] label = "standings2" ->
                compare_drivers(c.driver1_id, c.driver2_id, l["driver1"], l["driver2"],
                                l["results1"], l["results2"],
                                l["standings1"], l["standings2"])

\* the handler from the await at `label`, whose value is l[label], to its next
\* await (Goto), its return value, or the exception that leaves the try body
ToolStep(c, label, l, clk) ==
    CASE c.fn = "get_race_analysis" -> RaceAnalysisStep(label, l)
      [] c.fn = "get_driver_season_performance" -> SeasonPerformanceStep(label, l)
      [] c.fn = "get_driver_profile" -> DriverProfileStep(label, l)
      [] c.fn = "compare_drivers" -> CompareDriversStep(c, label, l)
      [] OTHER -> IF IsExc(l[label]) THEN l[label] ELSE SingleFetch(c, l[label], clk)

InitTools ==
    /\ call \in ToolCalls
    /\ clock \in Clocks
    /\ pc = "start"
    /\ net = "idle"
    /\ requests = <<>>
    /\ upstream = NoResponse
    /\ loc = NoLocals
    /\ agg = AggIdle
    /\ found = <<>>
    /\ result = Pending

IsToolCall == call \in ToolCalls

\* the host invokes the handler, which runs to its first await
ToolCall ==
    /\ IsToolCall
    /\ pc = "start"
    /\ pc' = FirstLabel(call)
    /\ UNCHANGED <<call, clock, net, requests, upstream, loc, agg, found, result>>

\* the handler awaits make_jolpica_request: the request is issued
ToolSend ==
    /\ IsToolCall
    /\ pc \notin {"start", "done"}
    /\ ~IsCareerLabel(call, pc)
    /\ net = "idle"
    /\ net' = "inflight"
    /\ requests' = Append(requests, BuildURL(ToolEndpoint(call, pc)))
    /\ UNCHANGED <<call, clock, pc, upstream, loc, agg, found, result>>

\* what follows an await whose value is v: the next await, or the handler's return
ToolResume(v) ==
    LET l == (pc :> v) @@ loc
        With_step(step) ==
            /\ loc' = l
            /\ IF step.t = "goto"
               THEN pc' = step.pc /\ result' = result
               ELSE pc' = "done" /\ result' = HandlerExcept(call, step)
    IN  With_step(ToolStep(call, pc, l, clock))

\* the fetch returns or raises, and the handler runs on
ToolReceive ==
    /\ IsToolCall
    /\ pc \notin {"start", "done"}
    /\ ~IsCareerLabel(call, pc)
    /\ net = "inflight"
    /\ \E r \in ToolResponses(call, pc) :
         /\ upstream' = r
         /\ ToolResume(make_jolpica_request(ToolEndpoint(call, pc), r))
    /\ net' = "idle"
    /\ UNCHANGED <<call, clock, requests, agg, found>>

\* the handler awaits get_driver_career_standings
ToolCareerCall ==
    /\ IsToolCall
    /\ IsCareerLabel(call, pc)
    /\ agg.pc = "idle"
    /\ agg' = AggStart(CareerDriver(call, pc), clock.year)
    /\ found' = <<>>
    /\ UNCHANGED <<call, clock, pc, net, requests, upstream, loc, result>>

\* get_driver_career_standings returns to the handler
ToolCareerReturn ==
    /\ IsToolCall
    /\ IsCareerLabel(call, pc)
    /\ agg.pc = "done"
    /\ ToolResume(agg.ret)
    /\ agg' = AggIdle
    /\ UNCHANGED <<call, clock, net, requests, upstream, found>>

NextTools ==
    \/ ToolCall
    \/ ToolSend
    \/ ToolReceive
    \/ ToolCareerCall
    \/ AggSend
    \/ AggReceive
    \/ AggReturn
    \/ ToolCareerReturn

SpecTools == InitTools /\ [][NextTools]_vars

(***************************************************************************)
(* Two concurrent calls of get_driver_career_standings                     *)
(*                                                                         *)
(* The event loop runs one coroutine at a time and switches at an await:   *)
(* the calls interleave at their fetches. Every variable of a call is a    *)
(* pair here, one component per call.                                      *)
(***************************************************************************)
Calls == 1..2

\* what the upstream answers to a call's request for one year: the season of
\* that driver, or a failure in the two most recent years
ConcurrentResponses(driver_id, year, now_year) ==
    LET DriverSeason ==
            JDict([season |-> JStr(<<ToString(year)>>),
                   DriverStandings |->
                       JList(<<JDict([position |-> JStr(<<"1">>), points |-> JStr(<<"25">>),
                                      wins |-> JStr(<<"1">>),
                                      Driver |-> JDict([driverId |-> JStr(<<driver_id>>)])])>>)])
        data == Http(200, JsonBody(StandingsTableOf(JDict("StandingsLists" :> JList(<<DriverSeason>>)))))
    IN  IF year = now_year THEN {data, [k |-> "transport", why |-> "ReadTimeout"]}
        ELSE IF year = now_year - 1 THEN {data, Http(404, HtmlBody)}
        ELSE {data}

\* mutant: recent_standings is one list shared by the calls
StoreFrame_shared_accumulator(frames, i, a) ==
    [j \in DOMAIN frames |->
       IF j = i THEN a
       ELSE IF "recent_standings" \in DOMAIN frames[j]
       THEN [frames[j] EXCEPT !.recent_standings = a.recent_standings]
       ELSE frames[j]]

\* current_year, year and recent_standings are locals of the call: a step of
\* call i changes the frame of call i
StoreFrame(frames, i, a) == [frames EXCEPT ![i] = a]

InitConcurrent ==
    /\ call \in { c \in { <<[fn |-> "get_driver_career_standings", driver_id |-> d1],
                             [fn |-> "get_driver_career_standings", driver_id |-> d2]>> :
                             d1 \in DriverIds, d2 \in DriverIds } :
                    c[1].driver_id # c[2].driver_id }
    /\ clock \in Clocks
    /\ pc = [i \in Calls |-> "start"]
    /\ net = [i \in Calls |-> "idle"]
    /\ requests = [i \in Calls |-> <<>>]
    /\ upstream = [i \in Calls |-> NoResponse]
    /\ loc = NoLocals
    /\ agg = [i \in Calls |-> AggIdle]
    /\ found = [i \in Calls |-> <<>>]
    /\ result = [i \in Calls |-> Pending]

\* call i starts: current_year = datetime.now().year, recent_standings = []
ConcurrentCall(i) ==
    /\ pc[i] = "start"
    /\ agg' = StoreFrame(agg, i, AggStart(call[i].driver_id, clock.year))
    /\ pc' = [pc EXCEPT ![i] = "career"]
    /\ UNCHANGED <<call, clock, net, requests, upstream, loc, found, result>>

\* call i issues the request of its next year, on its own client, and is suspended
ConcurrentSend(i) ==
    /\ agg[i].pc = "loop"
    /\ agg[i].year > agg[i].current_year - WindowYears
    /\ net[i] = "idle"
    /\ net' = [net EXCEPT ![i] = "inflight"]
    /\ requests' = [requests EXCEPT
                      ![i] = Append(@, BuildURL(CareerEndpoint(agg[i].year, agg[i].driver_id)))]
    /\ agg' = StoreFrame(agg, i, [agg[i] EXCEPT !.pc = "await"])
    /\ UNCHANGED <<call, clock, pc, upstream, loc, found, result>>

\* the fetch of call i returns or fails; call i is resumed and ends its iteration
ConcurrentReceive(i) ==
    /\ agg[i].pc = "await"
    /\ net[i] = "inflight"
    /\ \E r \in ConcurrentResponses(agg[i].driver_id, agg[i].year, clock.year) :
         /\ upstream' = [upstream EXCEPT ![i] = r]
         /\ agg' = StoreFrame(agg, i,
                              CareerIteration(agg[i],
                                              make_jolpica_request(
                                                  CareerEndpoint(agg[i].year, agg[i].driver_id), r)))
         /\ found' = IF HasStandings(r)
                     THEN [found EXCEPT ![i] = Append(@, [year |-> agg[i].year,
                                                          lists |-> StandingsOf(r)])]
                     ELSE found
    /\ net' = [net EXCEPT ![i] = "idle"]
    /\ UNCHANGED <<call, clock, pc, requests, loc, result>>

\* the window of call i is exhausted: it returns its envelope or None
ConcurrentReturn(i) ==
    /\ agg[i].pc = "loop"
    /\ agg[i].year <= agg[i].current_year - WindowYears
    /\ agg' = StoreFrame(agg, i, [pc |-> "done", ret |-> CareerReturn(agg[i].recent_standings)])
    /\ result' = [result EXCEPT ![i] = CareerReturn(agg[i].recent_standings)]
    /\ pc' = [pc EXCEPT ![i] = "done"]
    /\ UNCHANGED <<call, clock, net, requests, upstream, loc, found>>

NextConcurrent ==
    \E i \in Calls :
      \/ ConcurrentCall(i)
      \/ ConcurrentSend(i)
      \/ ConcurrentReceive(i)
      \/ ConcurrentReturn(i)

SpecConcurrent == InitConcurrent /\ [][NextConcurrent]_vars

(***************************************************************************)
(* The process: import of config.py, create_mcp_server, and the serving of *)
(* the tools of basic_tools.py                                             *)
(*                                                                         *)
(* call is the entry point with the environment of the process, loc the    *)
(* module-level names of config.py once it is imported, agg the server     *)
(* object, found the groups registered on it, requests the invocations     *)
(* served and result the outcome of the last step that has one.            *)
(***************************************************************************)
\* the invocations served in one run
MaxInvocations == 2

\* the processes: main.py or the test, with AUTH_TOKEN, MY_NUMBER and
\* MCP_SERVER_PORT unset, empty or set ("http" is not a number)
InitServer ==
    /\ call \in { [fn |-> f,
                   environ |-> [AUTH_TOKEN |-> a, MY_NUMBER |-> n, MCP_SERVER_PORT |-> p]] :
                    f \in {"main", "test_server_creation"},
                    a \in {None, JStr(<<>>), S("secret")},
                    n \in {None, JStr(<<>>), S("919876543210")},
                    p \in {None, S("2024"), S("http")} }
    /\ clock \in Clocks
    /\ pc = "start"
    /\ net = "idle"
    /\ requests = <<>>
    /\ upstream = <<>>
    /\ loc = <<>>
    /\ agg = AggIdle
    /\ found = <<>>
    /\ result = Pending

\* config.py without its two assert statements
ImportConfig_without_assertions ==
    /\ call.fn \in {"main", "test_server_creation"}
    /\ pc = "start"
    /\ LET port == IF call.environ.MCP_SERVER_PORT = None THEN JNum(8087)
                   ELSE PyInt(call.environ.MCP_SERVER_PORT)
       IN  IF IsExc(port)
           THEN pc' = "exited" /\ result' = port /\ loc' = loc
           ELSE /\ pc' = "imported"
                /\ loc' = [TOKEN |-> call.environ.AUTH_TOKEN,
                           MY_NUMBER |-> call.environ.MY_NUMBER, MCP_SERVER_PORT |-> port]
                /\ result' = result
    /\ UNCHANGED <<call, clock, net, requests, upstream, agg, found>>

\* `from .config import ...`: the module body runs once; int() of the port and the
\* two assertions end the process when they raise
ImportConfig ==
    /\ call.fn \in {"main", "test_server_creation"}
    /\ pc = "start"
    /\ LET port == IF call.environ.MCP_SERVER_PORT = None THEN JNum(8087)
                   ELSE PyInt(call.environ.MCP_SERVER_PORT)
           failure ==
               IF IsExc(port) THEN port
               ELSE IF call.environ.AUTH_TOKEN = None
               THEN Raise("AssertionError", "Please set AUTH_TOKEN in your .env file")
               ELSE IF call.environ.MY_NUMBER = None
               THEN Raise("AssertionError", "Please set MY_NUMBER in your .env file")
               ELSE Ok
       IN  IF IsExc(failure)
           THEN pc' = "exited" /\ result' = failure /\ loc' = loc
           ELSE /\ pc' = "imported"
                /\ loc' = [TOKEN |-> call.environ.AUTH_TOKEN,
                           MY_NUMBER |-> call.environ.MY_NUMBER, MCP_SERVER_PORT |-> port]
                /\ result' = result
    /\ UNCHANGED <<call, clock, net, requests, upstream, agg, found>>

\* auth.py: the provider keeps the token it is constructed with
SimpleBearerAuthProvider(token) == [t |-> "auth", token |-> token]

\* create_mcp_server, up to the call of register_all_tools
CreateServer ==
    /\ pc = "imported"
    /\ agg' = [name |-> "Formula 1 MCP Server", auth |-> SimpleBearerAuthProvider(loc.TOKEN)]
    /\ found' = <<>>
    /\ pc' = "register_basic_tools"
    /\ UNCHANGED <<call, clock, net, requests, upstream, loc, result>>

\* register_all_tools stopping before register_trivia_tools
RegisterNext_forgets_trivia ==
    LET groups ==
            << [register |-> "register_basic_tools", tools |-> <<"validate", "about">>],
               [register |-> "register_race_tools",
                tools |-> <<"get_next_race", "get_race_schedule", "get_latest_race_results">>],
               [register |-> "register_standings_tools",
                tools |-> <<"get_current_standings", "get_constructor_standings">>],
               [register |-> "register_driver_tools",
                tools |-> <<"get_driver_profile", "get_driver_season_performance">>],
               [register |-> "register_analysis_tools",
                tools |-> <<"get_race_analysis", "get_qualifying_results", "compare_drivers">>],
               [register |-> "register_historical_tools",
                tools |-> <<"get_historical_schedule", "get_all_seasons">>],
               [register |-> "register_data_tools",
                tools |-> <<"get_all_circuits", "get_current_drivers",
                            "get_current_constructors">>],
               [register |-> "register_racing_tools",
                tools |-> <<"get_sprint_results", "get_pitstops", "get_lap_times">>],
               [register |-> "register_status_tools", tools |-> <<"get_status_codes">>] >>
    IN  /\ \E k \in DOMAIN groups :
             /\ pc = groups[k].register
             /\ found' = Append(found, groups[k])
             /\ pc' = IF k = Len(groups) THEN "registered" ELSE groups[k + 1].register
        /\ UNCHANGED <<call, clock, net, requests, upstream, loc, agg, result>>

\* register_all_tools: the next register_<group>_tools(mcp), which adds the
\* functions decorated with @mcp.tool under their names
RegisterNext ==
    LET groups ==
            << [register |-> "register_basic_tools", tools |-> <<"validate", "about">>],
               [register |-> "register_race_tools",
                tools |-> <<"get_next_race", "get_race_schedule", "get_latest_race_results">>],
               [register |-> "register_standings_tools",
                tools |-> <<"get_current_standings", "get_constructor_standings">>],
               [register |-> "register_driver_tools",
                tools |-> <<"get_driver_profile", "get_driver_season_performance">>],
               [register |-> "register_analysis_tools",
                tools |-> <<"get_race_analysis", "get_qualifying_results", "compare_drivers">>],
               [register |-> "register_historical_tools",
                tools |-> <<"get_historical_schedule", "get_all_seasons">>],
               [register |-> "register_data_tools",
                tools |-> <<"get_all_circuits", "get_current_drivers",
                            "get_current_constructors">>],
               [register |-> "register_racing_tools",
                tools |-> <<"get_sprint_results", "get_pitstops", "get_lap_times">>],
               [register |-> "register_status_tools", tools |-> <<"get_status_codes">>],
               [register |-> "register_trivia_tools", tools |-> <<"f1_trivia">>] >>
    IN  /\ \E k \in DOMAIN groups :
             /\ pc = groups[k].register
             /\ found' = Append(found, groups[k])
             /\ pc' = IF k = Len(groups) THEN "registered" ELSE groups[k + 1].register
        /\ UNCHANGED <<call, clock, net, requests, upstream, loc, agg, result>>

\* `return mcp`
ReturnServer ==
    /\ pc = "registered"
    /\ pc' = "returned"
    /\ result' = agg
    /\ UNCHANGED <<call, clock, net, requests, upstream, loc, agg, found>>

\* the assertions of the test on the server it was given
TestServerCreation ==
    /\ call.fn = "test_server_creation"
    /\ pc = "returned"
    /\ IF result # None /\ result.name = "Formula 1 MCP Server"
       THEN pc' = "passed" /\ result' = result
       ELSE pc' = "exited" /\ result' = Raise("AssertionError", "")
    /\ UNCHANGED <<call, clock, net, requests, upstream, loc, agg, found>>

\* main: `await mcp.run_async("streamable-http", host=..., port=...)`
RunServer ==
    /\ call.fn = "main"
    /\ pc = "returned"
    /\ pc' = "serving"
    /\ net' = "listening"
    /\ UNCHANGED <<call, clock, requests, upstream, loc, agg, found, result>>

\* one invocation of a tool of basic_tools.py on the running server
ServeBasicTool ==
    LET \* validate(): MY_NUMBER of config.py, or the ValueError when it is None
        Validate ==
            IF loc.MY_NUMBER = None
            THEN Raise("ValueError", "MY_NUMBER environment variable must be set")
            ELSE loc.MY_NUMBER
        \* about(): the name and the description of the server
        About == JDict([name |-> S("Formula 1 MCP Server"), description |-> S("description")])
    IN  /\ pc = "serving"
        /\ Len(requests) < MaxInvocations
        /\ \E tool \in {"validate", "about"} :
             /\ \E k \in DOMAIN found : \E j \in DOMAIN found[k].tools : found[k].tools[j] = tool
             /\ requests' = Append(requests, tool)
             /\ result' = IF tool = "validate" THEN Validate ELSE About
        /\ UNCHANGED <<call, clock, pc, net, upstream, loc, agg, found>>

NextServer ==
    \/ ImportConfig
    \/ CreateServer
    \/ RegisterNext
    \/ ReturnServer
    \/ TestServerCreation
    \/ RunServer
    \/ ServeBasicTool

SpecServer == InitServer /\ [][NextServer]_vars

(***************************************************************************)
(* Claims about make_jolpica_request (SpecFetch)                           *)
(***************************************************************************)
FetchDone == call.fn = "make_jolpica_request" /\ pc = "done"

\* C5: a non-2xx answer makes the fetcher fail with the HTTP-error kind; the
\* message is 'Jolpica F1 API HTTP error <status>: <body>' and the body is
\* never parsed or returned as data.
C5_NonSuccessStatusIsHTTPError ==
    (FetchDone /\ upstream.k = "http" /\ upstream.status \notin 200..299)
      => result = McpError(INTERNAL_ERROR,
                           [prefix |-> "Jolpica F1 API HTTP error",
                            status |-> upstream.status, text |-> upstream.body])

C5_Witness ==
    /\ FetchDone
    /\ upstream.k = "http"
    /\ upstream.status = 302
    /\ upstream.body.raw = "json"
    /\ IsExc(result)
    /\ result.msg.prefix = "Jolpica F1 API HTTP error"

FailurePrefixes ==
    {"Jolpica F1 API HTTP error", "Jolpica F1 API network error",
     "Invalid JSON response from Jolpica F1 API", "Jolpica F1 API unexpected error"}

\* C6: a call ends either by returning the parsed JSON value or by raising an
\* McpError with code INTERNAL_ERROR whose message starts with one of the four
\* prefixes; no other exception escapes.
C6_ValueOrInternalError ==
    FetchDone =>
      \/ /\ ~IsExc(result)
         /\ upstream.k = "http"
         /\ upstream.body.raw = "json"
         /\ result = upstream.body.val
      \/ /\ IsExc(result)
         /\ result.cls = "McpError"
         /\ result.code = INTERNAL_ERROR
         /\ result.msg.prefix \in FailurePrefixes

C6_Witness ==
    /\ FetchDone
    /\ upstream.k = "unexpected"
    /\ IsExc(result)
    /\ result.cls = "McpError"
    /\ result.msg.prefix = "Jolpica F1 API unexpected error"

\* C7 (as claimed): every 2xx answer whose body is valid JSON is returned
\* unchanged, whatever its shape.
C7_Claim_ValidJsonReturnedUnchanged ==
    (FetchDone /\ upstream.k = "http" /\ upstream.status \in 200..299
       /\ upstream.body.raw = "json")
      => result = upstream.body.val

(***************************************************************************)
(* Claims about get_driver_career_standings (SpecCareer)                   *)
(***************************************************************************)
CareerCallDone == call.fn = "get_driver_career_standings" /\ pc = "done"

RECURSIVE FoundLists(_)
\* the lists of the years found, concatenated in the order they were found
FoundLists(f) == IF f = <<>> THEN <<>> ELSE Head(f).lists \o FoundLists(Tail(f))

\* C1: the accumulated sequence, and the StandingsLists of the envelope
\* returned, is the concatenation in probe order (descending years) of the
\* lists of the years whose fetch succeeded with a non-empty list, and holds
\* nothing else.
C1_ConcatenationInProbeOrder ==
    /\ \A i, j \in 1..Len(found) : i < j => found[i].year > found[j].year
    /\ agg.pc \in {"loop", "await"} => agg.recent_standings = FoundLists(found)
    /\ (CareerCallDone /\ found # <<>>) => result = StandingsEnvelope(FoundLists(found))

\* three of the ten years carry data, the first of them the year Y-3
C1_Witness ==
    /\ CareerCallDone
    /\ Len(found) = 3
    /\ found[1].year = clock.year - 3
    /\ result.t = "dict"
    /\ Len(result.v["MRData"].v["StandingsTable"].v["StandingsLists"].v) = 9

WindowOf(y) == (y - WindowYears + 1)..y

CareerURL(year, driver_id) ==
    <<JOLPICA_BASE_URL, "/", ToString(year), "/", "drivers", "/", driver_id, "/",
      "driverStandings", ".json">>

\* C2: when the scan ends, every year of the window was requested exactly
\* once, whatever the answers were.
C2_EveryYearFetchedOnce ==
    agg.pc = "done" =>
      /\ Len(requests) = WindowYears
      /\ \A y \in WindowOf(clock.year) :
           Cardinality({ i \in 1..Len(requests) :
                           requests[i] = CareerURL(y, call.driver_id) }) = 1

\* the first year carried data, the last year's fetch failed, and the scan
\* went through all ten
C2_Witness ==
    /\ agg.pc = "done"
    /\ Len(requests) = WindowYears
    /\ found # <<>>
    /\ found[1].year = clock.year
    /\ upstream.k = "transport"

\* C3: the i-th request is the one for year Y-(i-1) at
\* '{year}/drivers/{driver_id}/driverStandings', Y the current calendar
\* year; no other year is requested.
C3_DescendingWindow ==
    call.fn = "get_driver_career_standings" =>
      /\ Len(requests) <= WindowYears
      /\ \A i \in 1..Len(requests) :
           requests[i] = CareerURL(clock.year - (i - 1), call.driver_id)

C3_Witness ==
    /\ CareerCallDone
    /\ clock.year = 2026
    /\ Len(requests) = WindowYears
    /\ requests[WindowYears] = CareerURL(2017, call.driver_id)

\* C4: the call never raises; it returns None exactly when no probed year
\* carried a non-empty standings list, and the envelope otherwise.
C4_NoneIffNothingFound ==
    CareerCallDone =>
      /\ ~IsExc(result)
      /\ (result = None) <=> (found = <<>>)
      /\ (found # <<>>) => result.t = "dict"

\* nothing found, the last fetch having failed
C4_Witness ==
    /\ CareerCallDone
    /\ found = <<>>
    /\ upstream.k = "transport"
    /\ result = None

(***************************************************************************)
(* Claims about the tool handlers (SpecTools)                              *)
(***************************************************************************)
ToolDone == IsToolCall /\ pc = "done"

\* the awaits of the handler so far
Awaited == DOMAIN loc \ {"none"}

\* a fetch of the handler raised and no try inside the handler caught it
UnhandledFetchFailure(label) ==
    /\ label \in Awaited
    /\ IsExc(loc[label])
    /\ ~(call.fn = "get_driver_profile" /\ label = "results")

\* C8: a tool handler never raises to the host: whatever its fetches returned
\* or raised, it ends with a text; a 'Failed to ...' text names the handler's
\* action, and a fetch failure that nothing inside the handler catches ends
\* the handler with 'Failed to <action>: <message>' carrying the message of
\* that exception.
C8_HandlerAlwaysReturnsText ==
    IsToolCall =>
      /\ result.t \in {"pending", "text"}
      /\ ToolDone => /\ result.t = "text"
                     /\ result.kind \in {"fixed", "block", "failed"}
                     /\ result.kind = "failed" => result.action = Action(call)
      /\ \A label \in Awaited :
           (ToolDone /\ UnhandledFetchFailure(label)) =>
             /\ result.kind = "failed"
             /\ result.message = loc[label].msg

\* the third fetch of get_driver_season_performance timed out after two
\* envelopes had been accepted
C8_Witness ==
    /\ ToolDone
    /\ call.fn = "get_driver_season_performance"
    /\ Awaited = {"results", "standings", "driver"}
    /\ upstream.k = "transport"
    /\ result.kind = "failed"
    /\ result.action = "get driver season performance"
    /\ result.message.prefix = "Jolpica F1 API network error"

\* the envelope of the handler's first fetch
PrimaryFetched == FirstLabel(call) \in Awaited /\ ~IsExc(loc[FirstLabel(call)])
Primary == loc[FirstLabel(call)]

PrimaryLacksMRData ==
    /\ PrimaryFetched
    /\ Primary.t = "dict"
    /\ "MRData" \notin DOMAIN Primary.v

\* some fetch of the handler raised
SomeFetchRaised == \E label \in Awaited : IsExc(loc[label])

\* the text each handler returns when its guard on the envelope fires
NoDataMessage(c) ==
    CASE c.fn = "get_next_race" -> "No race data found. API might be unavailable."
      [] c.fn = "get_race_schedule" -> "No race schedule found. API might be unavailable."
      [] c.fn = "get_latest_race_results" ->
           "No recent race results available. API might be unavailable."
      [] c.fn = "get_current_standings" ->
           "No driver standings available. API might be unavailable."
      [] c.fn = "get_constructor_standings" ->
           "No constructor standings available. API might be unavailable."
      [] c.fn = "get_historical_schedule" ->
           "No race schedule found for {year}. API might be unavailable."
      [] c.fn = "get_all_seasons" -> "No season data available."
      [] c.fn = "get_all_circuits" -> "No circuit data available."
      [] c.fn = "get_current_drivers" -> "No driver data available."
      [] c.fn = "get_current_constructors" -> "No constructor data available."
      [] c.fn = "get_status_codes" -> "No status data available."
      [] c.fn = "get_sprint_results" -> "No sprint data found for {year} round {round_num}."
      [] c.fn = "get_pitstops" -> "No pit stop data found for {year} round {round_num}."
      [] c.fn = "get_lap_times" -> "No lap time data found for {year} round {round_num}."
      [] c.fn = "get_qualifying_results" ->
           "No qualifying data found for {year} round {round_num}."
      [] c.fn = "get_race_analysis" -> "No race data found for {year} round {round_num}."
      [] c.fn = "get_driver_profile" -> "Invalid API response for driver '{driver_id}'"
      [] c.fn = "get_driver_season_performance" ->
           "No data found for driver '{driver_id}' in {year} season."
      [] c.fn = "compare_drivers" ->
           "Invalid API response for driver '" \o c.driver1_id \o "'"

\* C9 as stated: whenever the envelope of the primary fetch is a JSON object
\* without 'MRData', the handler returns its fixed message, never 'Failed to ...'.
C9_Claim_NoMRDataAlwaysFixedMessage ==
    (ToolDone /\ PrimaryLacksMRData) => (result.t = "text" /\ result.kind = "fixed")

\* C9 amended: when the envelope of the primary fetch is a JSON object without
\* 'MRData' and no fetch of the handler raised, the handler returns its fixed
\* 'no data' / 'invalid response' message; get_race_analysis and compare_drivers
\* await a second fetch before they look at the first envelope, and when that
\* fetch raises they return 'Failed to ...' instead.
C9_NoMRDataFixedMessageUnlessFetchRaised ==
    (ToolDone /\ PrimaryLacksMRData) =>
      IF SomeFetchRaised
      THEN /\ call.fn \in {"get_race_analysis", "compare_drivers"}
           /\ result.kind = "failed"
      ELSE result = [t |-> "text", kind |-> "fixed", tool |-> call.fn,
                     msg |-> NoDataMessage(call)]

\* compare_drivers got a non-empty object without MRData for the first driver
\* and an answer for the second
C9_Witness ==
    /\ ToolDone
    /\ call.fn = "compare_drivers"
    /\ PrimaryLacksMRData
    /\ Primary.v # <<>>
    /\ Awaited = {"driver1", "driver2"}
    /\ ~SomeFetchRaised
    /\ result.kind = "fixed"

PrimaryLacksRaceTable ==
    /\ PrimaryFetched
    /\ Primary.t = "dict"
    /\ "MRData" \in DOMAIN Primary.v
    /\ Primary.v["MRData"].t = "dict"
    /\ "RaceTable" \notin DOMAIN Primary.v["MRData"].v

\* C10 as stated: get_race_analysis, get_qualifying_results and
\* get_driver_season_performance, given an envelope with 'MRData' but without
\* 'RaceTable' (and no failed fetch), return their fixed 'No ... found' message
\* and not a 'Failed to ...' text.
C10_Claim_NoRaceTableFixedMessage ==
    ( /\ ToolDone
      /\ call.fn \in {"get_race_analysis", "get_qualifying_results",
                      "get_driver_season_performance"}
      /\ PrimaryLacksRaceTable
      /\ ~SomeFetchRaised )
      => (result.t = "text" /\ result.kind = "fixed")

\* the races of a results envelope (none when the envelope has another shape)
RacesOf(env) ==
    IF /\ env.t = "dict" /\ "MRData" \in DOMAIN env.v
       /\ env.v["MRData"].t = "dict" /\ "RaceTable" \in DOMAIN env.v["MRData"].v
       /\ env.v["MRData"].v["RaceTable"].t = "dict"
       /\ "Races" \in DOMAIN env.v["MRData"].v["RaceTable"].v
       /\ env.v["MRData"].v["RaceTable"].v["Races"].t = "list"
    THEN env.v["MRData"].v["RaceTable"].v["Races"].v
    ELSE <<>>

\* the results of a race (none when the race carries no list of results)
ResultsOf(race) ==
    IF race.t = "dict" /\ "Results" \in DOMAIN race.v /\ race.v["Results"].t = "list"
    THEN race.v["Results"].v
    ELSE <<>>

\* a result whose position is present and is a string that is not a decimal integer
NonDecimalPosition(res) ==
    /\ res.t = "dict"
    /\ "position" \in DOMAIN res.v
    /\ res.v["position"].t = "str"
    /\ IsExc(PyInt(res.v["position"]))

\* how many results of the envelope awaited at `label` have such a position
NonDecimalCount(label) ==
    IF label \in Awaited /\ ~IsExc(loc[label])
    THEN Cardinality({ <<i, j>> \in (1..3) \X (1..11) :
                         /\ i <= Len(RacesOf(loc[label]))
                         /\ j <= Len(ResultsOf(RacesOf(loc[label])[i]))
                         /\ NonDecimalPosition(ResultsOf(RacesOf(loc[label])[i])[j]) })
    ELSE 0

\* every result of the envelope awaited at `label` has points that int() accepts
DecimalPoints(label) ==
    \A i \in 1..Len(RacesOf(loc[label])) :
      \A j \in 1..Len(ResultsOf(RacesOf(loc[label])[i])) :
        LET res == ResultsOf(RacesOf(loc[label])[i])[j]
        IN  res.t = "dict" /\ ~IsExc(PyInt(Get(res, "points", JNum(0))))

\* the DNF counter of a statistics record that has one
DnfsAtLeast(stats, n) == "dnfs" \in DOMAIN stats => stats.dnfs >= n

\* C11 as stated: in get_driver_profile, compare_drivers and
\* get_driver_season_performance a result whose position is present but not a
\* decimal integer ('R') is counted as a DNF, and it does not keep the handler
\* from returning its statistics block: the block's DNF counter is at least the
\* number of such results, and the handler does not end with 'Failed to ...'
\* carrying the ValueError of int(position) (every points field being decimal).
C11_Claim_NonDecimalPositionIsDNF ==
    ToolDone =>
      /\ (call.fn = "get_driver_profile" /\ result.kind = "block")
           => DnfsAtLeast(result.shown.statistics, NonDecimalCount("results"))
      /\ (call.fn = "compare_drivers" /\ result.kind = "block")
           => /\ DnfsAtLeast(result.shown.stats1, NonDecimalCount("results1"))
              /\ DnfsAtLeast(result.shown.stats2, NonDecimalCount("results2"))
      /\ call.fn = "get_driver_season_performance"
           => /\ result.kind = "block" => result.shown.dnfs >= NonDecimalCount("results")
              /\ (/\ result.kind = "failed" /\ ~SomeFetchRaised
                  /\ NonDecimalCount("results") > 0 /\ DecimalPoints("results"))
                   => result.message # Raise("ValueError", "invalid literal for int() with base 10").msg

\* the results of the one race the results endpoint of get_race_analysis returned
AnalysedResults == ResultsOf(RacesOf(loc["results"])[1])

\* the get_race_analysis block of a race that came with n >= 1 results
AnalysisBlock ==
    /\ ToolDone
    /\ call.fn = "get_race_analysis"
    /\ result.kind = "block"
    /\ RacesOf(loc["results"]) # <<>>
    /\ AnalysedResults # <<>>

\* C12: get_race_analysis, given one race with n results, lists the first
\* min(n, 10) results in upstream order, one row each and no other row, and
\* names as race winner the first result; with the two results '1' and '2' of
\* 2021/1/results the rows are exactly P1 then P2 and the winner is the first.
C12_TopTenAndWinner ==
    AnalysisBlock =>
      /\ result.shown.rows.t = "list"
      /\ Len(result.shown.rows.v) =
           (IF Len(AnalysedResults) < 10 THEN Len(AnalysedResults) ELSE 10)
      /\ \A i \in DOMAIN result.shown.rows.v : result.shown.rows.v[i] = AnalysedResults[i]
      /\ result.shown.winner = AnalysedResults[1]

\* a race with eleven results: ten rows, the winner is the first
C12_Witness ==
    /\ AnalysisBlock
    /\ call.round_num = 1
    /\ Len(AnalysedResults) = 11
    /\ Len(result.shown.rows.v) = 10
    /\ result.shown.rows.v[10].v["position"] = S("10")
    /\ result.shown.winner.v["position"] = S("1")

\* the two results of 2021/1/results, listed as P1 then P2
C12_WitnessTwoResults ==
    /\ AnalysisBlock
    /\ requests[1] = <<JOLPICA_BASE_URL, "/", "2021", "/", "1", "/", "results", ".json">>
    /\ [i \in 1..Len(result.shown.rows.v) |-> result.shown.rows.v[i].v["position"]]
         = <<S("1"), S("2")>>
    /\ result.shown.winner.v["Constructor"] = AnalysedResults[1].v["Constructor"]

(***************************************************************************)
(* Further claims about make_jolpica_request (SpecFetch)                   *)
(***************************************************************************)
\* C13: a request that fails at transport level (connection error) or runs
\* into the timeout ends the fetcher with the network-error kind, whose
\* message carries the underlying message; never another kind, never data.
C13_TransportFailureIsNetworkError ==
    (FetchDone /\ upstream.k = "transport")
      => result = McpError(INTERNAL_ERROR,
                           [prefix |-> "Jolpica F1 API network error", detail |-> upstream.why])

\* the read of the response ran into the timeout
C13_Witness ==
    /\ FetchDone
    /\ upstream = [k |-> "transport", why |-> "ReadTimeout"]
    /\ IsExc(result)
    /\ result.msg.prefix = "Jolpica F1 API network error"

\* C14: a 2xx answer whose body is not JSON ends the fetcher with the
\* decode-error kind ('Invalid JSON response from Jolpica F1 API: ...'), never
\* with another kind and never with a value.
C14_NonJsonBodyIsDecodeError ==
    (FetchDone /\ upstream.k = "http" /\ upstream.status \in 200..299
       /\ upstream.body.raw # "json")
      => /\ IsExc(result)
         /\ result.cls = "McpError"
         /\ result.code = INTERNAL_ERROR
         /\ result.msg.prefix = "Invalid JSON response from Jolpica F1 API"

\* 201 with an HTML body
C14_Witness ==
    /\ FetchDone
    /\ upstream = Http(201, HtmlBody)
    /\ IsExc(result)
    /\ result.msg.prefix = "Invalid JSON response from Jolpica F1 API"

\* the endpoint of the call is k slashes followed by f, and f has no leading slash
SlashesThen(k, f) ==
    /\ k \in 0..Len(call.endpoint)
    /\ \A i \in 1..k : call.endpoint[i] = "/"
    /\ f = SubSeq(call.endpoint, k + 1, Len(call.endpoint))
    /\ f # <<>>
    /\ f[1] # "/"

\* C15: called with k >= 0 slashes in front of a fragment f that has no
\* leading slash, the fetcher requests base URL + '/' + f + '.json', whatever
\* k; no leading slash of the endpoint reaches the path.
C15_LeadingSlashesStripped ==
    (call.fn = "make_jolpica_request" /\ requests # <<>>) =>
      /\ Len(requests) = 1
      /\ \A k \in 0..Len(call.endpoint) :
           SlashesThen(k, SubSeq(call.endpoint, k + 1, Len(call.endpoint)))
             => requests[1] = <<JOLPICA_BASE_URL, "/">>
                                \o SubSeq(call.endpoint, k + 1, Len(call.endpoint))
                                \o <<".json">>
      /\ requests[1][3] # "/"

\* '//2021/1/results' was requested as base URL + '/2021/1/results.json'
C15_Witness ==
    /\ FetchDone
    /\ call.endpoint = <<"/", "/", "2021", "/", "1", "/", "results">>
    /\ requests = << <<JOLPICA_BASE_URL, "/", "2021", "/", "1", "/", "results", ".json">> >>

(***************************************************************************)
(* Claims about the callers of get_driver_career_standings (SpecTools)     *)
(***************************************************************************)
\* get_driver_career_standings, awaited at `label`, returned None
CareerAbsent(label) == label \in Awaited /\ loc[label] = None

\* what the handler would have returned from its last await had the
\* aggregator, awaited at `label`, returned a one-season envelope instead
WithCareerData(label, last) ==
    HandlerExcept(call,
                  ToolStep(call, last,
                           [loc EXCEPT ![label] = CareerReturn(<<StandingsEntry(2024, "1")>>)],
                           clock))

\* C16: the absence value of get_driver_career_standings is 'no data', not a
\* fault: get_driver_profile still returns the profile, with the Championship
\* History rendered as 'Data unavailable', and compare_drivers still returns
\* the comparison, with 0 championships for that driver; when either handler
\* ends with 'Failed to ...', it would have ended with the same text had the
\* aggregator returned data.
C16_AbsentCareerIsNoData ==
    ToolDone =>
      /\ (call.fn = "get_driver_profile" /\ CareerAbsent("career") /\ "results" \in Awaited) =>
           /\ result.kind \in {"block", "failed"}
           /\ result.kind = "block" =>
                result.shown.history = [t |-> "ok", kind |-> "Data unavailable"]
           /\ result.kind = "failed" => result = WithCareerData("career", "results")
      /\ \A i \in 1..2 :
           ( /\ call.fn = "compare_drivers"
             /\ CareerAbsent(<<"standings1", "standings2">>[i])
             /\ IsCareerLabel(call, <<"standings1", "standings2">>[i])
             /\ "standings2" \in Awaited ) =>
             /\ result.kind \in {"block", "failed"}
             /\ result.kind = "block" =>
                  <<result.shown.stats1, result.shown.stats2>>[i].championships = 0
             /\ result.kind = "failed" =>
                  result = WithCareerData(<<"standings1", "standings2">>[i], "standings2")

\* no season of the driver was found, the results arrived: the profile is
\* returned with its statistics
C16_Witness ==
    /\ ToolDone
    /\ call.fn = "get_driver_profile"
    /\ CareerAbsent("career")
    /\ Len(requests) = 2 + WindowYears
    /\ ~IsExc(loc["results"])
    /\ result.kind = "block"
    /\ result.shown.history.kind = "Data unavailable"
    /\ result.shown.statistics.kind = "listed"

\* the second driver of a career comparison has no standings, the first has
C16_WitnessCompare ==
    /\ ToolDone
    /\ call.fn = "compare_drivers"
    /\ IsCareerLabel(call, "standings2")
    /\ Awaited = {"driver1", "driver2", "results1", "results2", "standings1", "standings2"}
    /\ loc["standings1"] # None
    /\ CareerAbsent("standings2")
    /\ result.kind = "block"
    /\ result.shown.stats2.championships = 0

(***************************************************************************)
(* Claims about the requests of one invocation (SpecTools)                 *)
(***************************************************************************)
\* C18: within one invocation at most one request is in flight: every step
\* that issues a request starts with no request in flight (the previous one
\* has returned or failed), issues exactly one, and leaves it in flight; this
\* covers the probes of get_driver_career_standings and the fetches of the
\* multi-fetch handlers.
C18_OneRequestInFlight ==
    [][ (requests' # requests) =>
          /\ net = "idle"
          /\ net' = "inflight"
          /\ Len(requests') = Len(requests) + 1
          /\ SubSeq(requests', 1, Len(requests)) = requests ]_vars

\* a career comparison ended after its 4 fetches and its 2 x 10 probes
C18_Witness ==
    /\ ToolDone
    /\ call.fn = "compare_drivers"
    /\ Len(requests) = 4 + 2 * WindowYears
    /\ net = "idle"

\* compare_drivers(d, d, 0) has awaited get_driver_career_standings(d) twice
SecondCareerCallDone ==
    /\ IsToolCall
    /\ call.fn = "compare_drivers"
    /\ call.driver1_id = call.driver2_id
    /\ IsCareerLabel(call, "standings2")
    /\ "standings2" \in Awaited

\* C19: nothing is cached between calls: two successive calls of
\* get_driver_career_standings for the same driver issue the 10 requests of
\* the window each, and what the second call returns is the envelope of the
\* lists its own 10 answers carried (None when they carried none), whatever
\* the first call saw.
C19_NoCachingBetweenCalls ==
    SecondCareerCallDone =>
      /\ Len(requests) = 4 + 2 * WindowYears
      /\ \A i \in 1..WindowYears :
           /\ requests[4 + i] = CareerURL(clock.year - (i - 1), call.driver1_id)
           /\ requests[4 + WindowYears + i] = CareerURL(clock.year - (i - 1), call.driver1_id)
      /\ \A i, j \in 1..Len(found) : i < j => found[i].year > found[j].year
      /\ loc["standings2"] = CareerReturn(FoundLists(found))

\* the first call found all ten seasons, the second one only eight of them
C19_Witness ==
    /\ SecondCareerCallDone
    /\ ToolDone
    /\ Len(loc["standings1"].v["MRData"].v["StandingsTable"].v["StandingsLists"].v) = 3 * WindowYears
    /\ Len(found) = WindowYears - 2
    /\ loc["standings2"] # loc["standings1"]
    /\ Len(requests) = 4 + 2 * WindowYears

(***************************************************************************)
(* Claims about concurrent calls (SpecConcurrent)                          *)
(***************************************************************************)
\* the drivers named by the entries of a list of StandingsLists entries
DriversNamed(lists) ==
    { lists[k].v["DriverStandings"].v[1].v["Driver"].v["driverId"].v[1] : k \in DOMAIN lists }

\* C17: two calls of get_driver_career_standings for different drivers that
\* interleave at their fetches do not influence each other: each requests the
\* ten years of its own driver, and each returns exactly the entries its own
\* fetches carried, in probe order (None when they carried none), which is
\* what the call returns when it runs alone with the same answers.
C17_ConcurrentCallsIndependent ==
    \A i \in Calls :
      /\ Len(requests[i]) <= WindowYears
      /\ \A n \in 1..Len(requests[i]) :
           requests[i][n] = CareerURL(clock.year - (n - 1), call[i].driver_id)
      /\ agg[i].pc \in {"loop", "await"} => agg[i].recent_standings = FoundLists(found[i])
      /\ pc[i] = "done" =>
           /\ Len(requests[i]) = WindowYears
           /\ result[i] = CareerReturn(FoundLists(found[i]))
           /\ DriversNamed(FoundLists(found[i])) \subseteq {call[i].driver_id}

\* the second call has returned nine seasons of its driver while the first,
\* which missed the current year, awaits its third fetch
C17_Witness ==
    /\ pc[2] = "done"
    /\ Len(found[2]) = WindowYears - 1
    /\ result[2] = StandingsEnvelope(FoundLists(found[2]))
    /\ pc[1] = "career"
    /\ net[1] = "inflight"
    /\ Len(requests[1]) = 3
    /\ Len(found[1]) = 1
    /\ found[1][1].year = clock.year - 1

\* both calls have returned; each missed one year, and not the same one
C17_WitnessBothReturned ==
    /\ \A i \in Calls : pc[i] = "done"
    /\ Len(found[1]) = WindowYears - 1
    /\ found[1][1].year = clock.year - 1
    /\ Len(found[2]) = WindowYears - 1
    /\ found[2][2].year = clock.year - 2
    /\ result[1] # result[2]

(***************************************************************************)
(* Termination of get_driver_career_standings (SpecCareerLive)             *)
(***************************************************************************)
\* C20: provided every fetch ends, the call eventually returns, after the ten
\* years of the window have been probed and no more, whatever the outcome of
\* each year was.
C20_CareerCallTerminates == <>(CareerCallDone /\ Len(requests) = WindowYears)

\* the call returned after ten probes of which only the last carried a season
C20_Witness ==
    /\ CareerCallDone
    /\ Len(requests) = WindowYears
    /\ Len(found) = 1
    /\ found[1].year = clock.year - (WindowYears - 1)
    /\ result.t = "dict"

(***************************************************************************)
(* Claims about the statistics of the driver handlers (SpecTools)          *)
(***************************************************************************)
\* twice the points a result carries: the upstream sends whole and half points
TwicePoints(res) ==
    IF res.t = "dict" /\ "points" \in DOMAIN res.v /\ res.v["points"].t = "str"
    THEN IF res.v["points"] = S("12.5") THEN 25
         ELSE IF IsExc(PyInt(res.v["points"])) THEN 0 ELSE 2 * PyInt(res.v["points"]).v
    ELSE 0

\* a result whose points are not a whole number
FractionalPoints(res) ==
    res.t = "dict" /\ "points" \in DOMAIN res.v /\ res.v["points"] = S("12.5")

RECURSIVE TwiceSum(_)
\* twice the sum of the points of a list of results
TwiceSum(results) ==
    IF results = <<>> THEN 0 ELSE TwicePoints(Head(results)) + TwiceSum(Tail(results))

RECURSIVE AllResults(_)
\* the results of all races, race after race
AllResults(races) ==
    IF races = <<>> THEN <<>> ELSE ResultsOf(Head(races)) \o AllResults(Tail(races))

RECURSIVE FirstResults(_)
\* the first result of every race that has one
FirstResults(races) ==
    IF races = <<>> THEN <<>>
    ELSE (IF ResultsOf(Head(races)) = <<>> THEN <<>> ELSE <<Head(ResultsOf(Head(races)))>>)
           \o FirstResults(Tail(races))

\* the results envelope of the handler arrived
ResultsArrived == "results" \in Awaited /\ ~IsExc(loc["results"])

\* C23 as stated: 'Total Points' of get_driver_profile is the sum of the points
\* of all results of all races, 'Total Points' of get_driver_season_performance
\* is the sum of the points of the first result of every race, and a points
\* value that is not a whole number ('12.5') is added like any other and does
\* not make the handler fail.
C23_Claim_TotalPointsIsSum ==
    (ToolDone /\ ResultsArrived) =>
      /\ ( /\ call.fn = "get_driver_profile"
           /\ result.kind = "block"
           /\ result.shown.statistics.kind = "listed" )
           => 2 * result.shown.statistics.points_total
                = TwiceSum(AllResults(RacesOf(loc["results"])))
      /\ call.fn = "get_driver_season_performance"
           => /\ result.kind = "block"
                   => 2 * result.shown.total_points
                        = TwiceSum(FirstResults(RacesOf(loc["results"])))
              /\ ( /\ result.kind = "failed"
                   /\ ~SomeFetchRaised
                   /\ NonDecimalCount("results") = 0
                   /\ \E i \in 1..Len(FirstResults(RacesOf(loc["results"]))) :
                        FractionalPoints(FirstResults(RacesOf(loc["results"]))[i]) )
                   => result.message # Raise("ValueError", "invalid literal for int() with base 10").msg

\* the entries of the envelope get_driver_career_standings returned to the profile
CareerEntries ==
    IF "career" \in Awaited /\ loc["career"] # None
    THEN loc["career"].v["MRData"].v["StandingsTable"].v["StandingsLists"].v
    ELSE <<>>

\* the calendar year a season field names
YearOfSeason(season) == CHOOSE y \in 2000..2030 : season = JStr(<<ToString(y)>>)

\* the profile came with a Championship History built from more than 5 seasons
LongHistory ==
    /\ ToolDone
    /\ call.fn = "get_driver_profile"
    /\ result.kind = "block"
    /\ result.shown.history.kind = "listed"
    /\ Len(CareerEntries) > 5

\* C24 as stated: with more than 5 seasons aggregated, 'Recent Seasons
\* Performance' lists exactly 5 of them and these are the 5 most recent ones
\* found (no season left out is more recent than a season listed), while
\* 'World Championships' counts the titles of all seasons found.
C24_Claim_FiveMostRecentSeasons ==
    LongHistory =>
      /\ Len(result.shown.history.shown) = 5
      /\ \A i \in 1..5 :
           YearOfSeason(result.shown.history.shown[i].season)
             >= YearOfSeason(CareerEntries[5].v["season"])
      /\ result.shown.history.championships =
           Cardinality({ i \in DOMAIN CareerEntries :
                           CareerEntries[i].v["DriverStandings"].v[1].v["position"] = S("1") })

(***************************************************************************)
(* Claims about the round handlers (SpecTools)                             *)
(***************************************************************************)
\* the entries of QualifyingResults of the race get_qualifying_results fetched
QualifyingEntries == RacesOf(loc["fetch"])[1].v["QualifyingResults"].v

\* get_qualifying_results returned its block
QualifyingBlock ==
    /\ ToolDone
    /\ call.fn = "get_qualifying_results"
    /\ result.kind = "block"

\* the grid position of an entry
GridPosition(entry) == PyInt(entry.v["position"]).v

\* C25 as stated: the starting grid of get_qualifying_results lists every
\* entry of QualifyingResults exactly once, in ascending order of integer
\* position, and the pole position is the entry with the lowest position among
\* those with a Q3 time.
C25_Claim_GridListsEveryEntry ==
    QualifyingBlock =>
      /\ Len(result.shown.grid) = Len(QualifyingEntries)
      /\ \A i \in DOMAIN QualifyingEntries :
           Cardinality({ j \in DOMAIN result.shown.grid :
                           result.shown.grid[j] = QualifyingEntries[i] }) = 1
      /\ \A i, j \in DOMAIN result.shown.grid :
           i < j => GridPosition(result.shown.grid[i]) <= GridPosition(result.shown.grid[j])
      /\ \A i \in DOMAIN QualifyingEntries :
           "Q3" \in DOMAIN QualifyingEntries[i].v =>
             /\ result.shown.pole # None
             /\ "Q3" \in DOMAIN result.shown.pole.v
             /\ GridPosition(result.shown.pole) <= GridPosition(QualifyingEntries[i])

(***************************************************************************)
(* Claims about the lap times (SpecTools)                                  *)
(***************************************************************************)
\* the laps the upstream sent to get_lap_times
LapsSent == RacesOf(loc["fetch"])[1].v["Laps"].v

\* the timings of lap i
TimingsOfLap(i) == LapsSent[i].v["Timings"].v

\* get_lap_times returned its block
LapTimesBlock ==
    /\ ToolDone
    /\ call.fn = "get_lap_times"
    /\ result.kind = "block"

\* every lap has a number and a list of timings, every timing names its driver
\* and its time, when present, is a string
LapsWellFormed ==
    /\ RacesOf(loc["fetch"]) # <<>>
    /\ RacesOf(loc["fetch"])[1].t = "dict"
    /\ {"Laps", "Circuit", "raceName"} \subseteq DOMAIN RacesOf(loc["fetch"])[1].v
    /\ RacesOf(loc["fetch"])[1].v["Laps"].t = "list"
    /\ \A i \in DOMAIN LapsSent :
         /\ LapsSent[i].t = "dict"
         /\ {"number", "Timings"} \subseteq DOMAIN LapsSent[i].v
         /\ LapsSent[i].v["Timings"].t = "list"
         /\ \A j \in DOMAIN TimingsOfLap(i) :
              /\ TimingsOfLap(i)[j].t = "dict"
              /\ "driverId" \in DOMAIN TimingsOfLap(i)[j].v
              /\ TimingsOfLap(i)[j].v["driverId"].t = "str"
              /\ "time" \in DOMAIN TimingsOfLap(i)[j].v
                   => TimingsOfLap(i)[j].v["time"].t = "str"

\* the time of a timing has the form m:ss, m a whole number and ss a decimal
HasLapTime(timing) ==
    /\ "time" \in DOMAIN timing.v
    /\ timing.v["time"].t = "str"
    /\ Len(timing.v["time"].v) = 3
    /\ timing.v["time"].v[2] = ":"
    /\ ~IsExc(PyInt(JStr(<<timing.v["time"].v[1]>>)))
    /\ ~IsExc(PyFloat(JStr(<<timing.v["time"].v[3]>>)))

\* minutes * 60 + seconds of such a timing, in tenths of a second
TotalTenths(timing) ==
    PyInt(JStr(<<timing.v["time"].v[1]>>)).v * 600 + PyFloat(JStr(<<timing.v["time"].v[3]>>)).v

\* the places <<lap, timing>> of the timings whose time has the form m:ss
TimedPlaces ==
    { p \in UNION { {<<i, j>> : j \in DOMAIN TimingsOfLap(i)} : i \in DOMAIN LapsSent } :
        HasLapTime(TimingsOfLap(p[1])[p[2]]) }

\* place p comes before place q in the order of the upstream
PlaceBefore(p, q) == p[1] < q[1] \/ (p[1] = q[1] /\ p[2] < q[2])

\* the first of the places with the smallest total time
FastestPlace ==
    CHOOSE p \in TimedPlaces :
      \A q \in TimedPlaces \ {p} :
        \/ TotalTenths(TimingsOfLap(p[1])[p[2]]) < TotalTenths(TimingsOfLap(q[1])[q[2]])
        \/ /\ TotalTenths(TimingsOfLap(p[1])[p[2]]) = TotalTenths(TimingsOfLap(q[1])[q[2]])
           /\ PlaceBefore(p, q)

C26_WitnessNoneParses ==
    /\ LapTimesBlock /\ LapsWellFormed
    /\ TimedPlaces = {}
    /\ \E i \in DOMAIN LapsSent : \E j \in DOMAIN TimingsOfLap(i) :
         "time" \notin DOMAIN TimingsOfLap(i)[j].v
    /\ \E i \in DOMAIN LapsSent : \E j \in DOMAIN TimingsOfLap(i) :
         "time" \in DOMAIN TimingsOfLap(i)[j].v
    /\ result.shown.fastest = None

\* a timing without a time comes first and a later lap holds the fastest timing
C26_WitnessLaterLap ==
    /\ LapTimesBlock /\ LapsWellFormed
    /\ "time" \notin DOMAIN TimingsOfLap(1)[1].v
    /\ result.shown.fastest.t = "best"
    /\ result.shown.fastest.lap = S("2")

(***************************************************************************)
(* Claims about the next race (SpecTools)                                  *)
(***************************************************************************)
\* the schedule the upstream sent to get_next_race
ScheduleSent == RacesOf(loc["fetch"])

\* get_next_race has returned
NextRaceDone == ToolDone /\ call.fn = "get_next_race" /\ ~IsExc(loc["fetch"])

\* every race of the schedule carries an ISO date
ScheduleDated ==
    \A i \in DOMAIN ScheduleSent :
      /\ ScheduleSent[i].t = "dict"
      /\ "date" \in DOMAIN ScheduleSent[i].v
      /\ ~IsExc(FromIso(ScheduleSent[i].v["date"]))

\* race i of the schedule is dated before today
DatedBeforeToday(i) == FromIso(ScheduleSent[i].v["date"]).v < IsoDates[clock.today]

\* the message of a season without a race left
NoUpcomingRace == Fixed("get_next_race", "No upcoming races found for this season.")

\* C27: get_next_race returns the first race, in upstream schedule order,
\* whose date is on or after the current UTC date (a race dated today counts
\* as upcoming); it returns 'No upcoming races found for this season.' exactly
\* when the schedule is non-empty and every race date is before today, and it
\* never reports a race whose date is in the past.
C27_FirstRaceNotBeforeToday ==
    (NextRaceDone /\ ScheduleDated) =>
      /\ result = NoUpcomingRace
           <=> (ScheduleSent # <<>> /\ \A i \in DOMAIN ScheduleSent : DatedBeforeToday(i))
      /\ (\E i \in DOMAIN ScheduleSent : ~DatedBeforeToday(i)) =>
           /\ result.kind = "block"
           /\ \E i \in DOMAIN ScheduleSent :
                /\ result.shown.race = ScheduleSent[i]
                /\ ~DatedBeforeToday(i)
                /\ \A j \in 1..(i - 1) : DatedBeforeToday(j)
      /\ result.kind = "block" =>
           FromIso(result.shown.race.v["date"]).v >= IsoDates[clock.today]

\* the second race of three is dated today and is the one returned
C27_Witness ==
    /\ NextRaceDone /\ ScheduleDated
    /\ Len(ScheduleSent) = 3
    /\ DatedBeforeToday(1)
    /\ FromIso(ScheduleSent[2].v["date"]).v = IsoDates[clock.today]
    /\ result.kind = "block"
    /\ result.shown.race = ScheduleSent[2]

\* a schedule of two races, both before today: the message of the finished season
C27_WitnessSeasonOver ==
    /\ NextRaceDone /\ ScheduleDated
    /\ Len(ScheduleSent) = 2
    /\ \A i \in DOMAIN ScheduleSent : DatedBeforeToday(i)
    /\ result = NoUpcomingRace

\* the first race is the later of two upcoming ones: upstream order decides
C27_WitnessUpstreamOrder ==
    /\ NextRaceDone /\ ScheduleDated
    /\ Len(ScheduleSent) = 2
    /\ FromIso(ScheduleSent[1].v["date"]).v > FromIso(ScheduleSent[2].v["date"]).v
    /\ ~DatedBeforeToday(2)
    /\ result.kind = "block"
    /\ result.shown.race = ScheduleSent[1]

(***************************************************************************)
(* Claims about the round number (SpecTools)                               *)
(***************************************************************************)
\* the tools that take a round number, with and without the 'last' sentinel
SentinelTools == {"get_race_analysis", "get_qualifying_results", "get_sprint_results"}
PlainRoundTools == {"get_pitstops", "get_lap_times"}

\* the URL of the list `suffix` of the round written as `segment`
RoundURL(segment, suffix) ==
    <<JOLPICA_BASE_URL, "/", ToString(call.year.v), "/", segment, "/", suffix, ".json">>

\* the lists a tool asks for, in the order of its requests
RoundSuffixes ==
    CASE call.fn = "get_race_analysis" -> <<"results", "qualifying">>
      [] call.fn = "get_qualifying_results" -> <<"qualifying">>
      [] call.fn = "get_sprint_results" -> <<"sprint">>
      [] call.fn = "get_pitstops" -> <<"pitstops">>
      [] call.fn = "get_lap_times" -> <<"laps">>

\* the decimal form of the numbers 0..29
Decimal(n) ==
    LET digits == <<"0", "1", "2", "3", "4", "5", "6", "7", "8", "9">>
    IN  IF n < 10 THEN digits[n + 1] ELSE digits[(n \div 10) + 1] \o digits[(n % 10) + 1]

\* C28: in get_race_analysis, get_qualifying_results and get_sprint_results the
\* round number 0 is the 'last race' sentinel: round_num 0 requests the segment
\* 'last' and every other integer n its decimal form, so these three tools
\* never send a request for round '0'; get_pitstops and get_lap_times have no
\* sentinel and pass the round number through unchanged.
C28_RoundZeroIsLast ==
    (IsToolCall /\ call.fn \in SentinelTools \cup PlainRoundTools) =>
      /\ Len(requests) <= Len(RoundSuffixes)
      /\ pc = "done" => Len(requests) >= 1
      /\ \A i \in DOMAIN requests :
           /\ call.fn \in SentinelTools =>
                /\ requests[i] = RoundURL(IF call.round_num = 0 THEN "last"
                                          ELSE Decimal(call.round_num), RoundSuffixes[i])
                /\ requests[i] # RoundURL("0", RoundSuffixes[i])
           /\ call.fn \in PlainRoundTools =>
                requests[i] = RoundURL(Decimal(call.round_num), RoundSuffixes[i])

\* get_race_analysis of round 0 has asked for last/results and last/qualifying
C28_Witness ==
    /\ ToolDone
    /\ call.fn = "get_race_analysis"
    /\ call.round_num = 0
    /\ requests = <<RoundURL("last", "results"), RoundURL("last", "qualifying")>>

\* get_pitstops of round 0 has asked for round 0
C28_WitnessPassedThrough ==
    /\ ToolDone
    /\ call.fn = "get_pitstops"
    /\ call.round_num = 0
    /\ requests = <<RoundURL("0", "pitstops")>>

\* get_sprint_results of round 12 has asked for round 12
C28_WitnessDecimal ==
    /\ ToolDone
    /\ call.fn = "get_sprint_results"
    /\ call.round_num = 12
    /\ requests = <<RoundURL("12", "sprint")>>

(***************************************************************************)
(* Claims about the failures inside get_driver_profile (SpecTools)         *)
(***************************************************************************)
\* get_driver_profile has returned
ProfileDone == ToolDone /\ call.fn = "get_driver_profile"

\* the driver was found and the fetch of the career results raised
ProfileResultsFailed ==
    /\ ProfileDone
    /\ "results" \in Awaited
    /\ IsExc(loc["results"])

\* the driver the upstream sent
DriverSent == ProfileDriver(loc["driver"]).driver

\* a section that reads 'Data unavailable'
Unavailable == [t |-> "ok", kind |-> "Data unavailable"]

\* the answer to a driver id the upstream does not know
NoDriverFound == Fixed("get_driver_profile", "No driver found with ID '{driver_id}'.")

\* C29: in get_driver_profile, once the driver is found, a failure of the
\* career-results fetch does not fail the tool: the profile is still returned
\* with the personal information, but both the Championship History and the
\* Career Statistics sections read 'Data unavailable', also when the career
\* standings were aggregated successfully just before; a driver that is not
\* found costs exactly one upstream request and no standings probe.
C29_ResultsFailureBlanksBothSections ==
    /\ ProfileResultsFailed =>
         /\ result.kind \in {"block", "failed"}
         /\ result.kind = "failed" => "nationality" \notin DOMAIN DriverSent.v
         /\ "nationality" \in DOMAIN DriverSent.v => result.kind = "block"
         /\ result.kind = "block" =>
              /\ result.shown.driver = DriverSent
              /\ result.shown.history = Unavailable
              /\ result.shown.statistics = Unavailable
    /\ (ProfileDone /\ result = NoDriverFound) =>
         /\ Len(requests) = 1
         /\ requests[1] = <<JOLPICA_BASE_URL, "/", "drivers", "/", call.driver_id, ".json">>
         /\ Awaited = {"driver"}
         /\ agg = AggIdle

\* the aggregator found seasons of the driver, the results fetch failed after
\* it, and both sections are unavailable
C29_Witness ==
    /\ ProfileResultsFailed
    /\ loc["career"] # None
    /\ Len(requests) = 2 + WindowYears
    /\ result.kind = "block"
    /\ "nationality" \in DOMAIN result.shown.driver.v
    /\ result.shown.history = Unavailable
    /\ result.shown.statistics = Unavailable

\* the upstream knows no such driver: one request
C29_WitnessNotFound ==
    /\ ProfileDone
    /\ result = NoDriverFound
    /\ Len(requests) = 1

(***************************************************************************)
(* Claims about the two fetches of get_race_analysis (SpecTools)           *)
(***************************************************************************)
\* get_race_analysis has returned
AnalysisDone == ToolDone /\ call.fn = "get_race_analysis"

\* the qualifying envelope arrived and is falsy or a JSON object without 'MRData'
QualifyingLacksMRData ==
    /\ "qualifying" \in Awaited
    /\ ~IsExc(loc["qualifying"])
    /\ \/ ~Truthy(loc["qualifying"])
       \/ loc["qualifying"].t = "dict" /\ "MRData" \notin DOMAIN loc["qualifying"].v

\* what the handler returns for the results envelope it has and the qualifying envelope q
AnalysisGiven(q) == HandlerExcept(call, get_race_analysis(loc["results"], q))

\* C30: get_race_analysis issues the results fetch and then the qualifying
\* fetch before it inspects either envelope: if either fetch fails the tool
\* returns 'Failed to get race analysis: <message>' and renders no race data,
\* even when the results fetch had succeeded; a qualifying envelope that was
\* fetched but has no MRData only omits the qualifying block.
C30_BothFetchesBeforeInspection ==
    AnalysisDone =>
      /\ IsExc(loc["results"]) =>
           /\ result = Failed("get race analysis", loc["results"])
           /\ Len(requests) = 1
      /\ ~IsExc(loc["results"]) =>
           /\ "qualifying" \in Awaited
           /\ requests = <<RoundURL(RoundIdentifier(call.round_num), "results"),
                           RoundURL(RoundIdentifier(call.round_num), "qualifying")>>
      /\ ("qualifying" \in Awaited /\ IsExc(loc["qualifying"])) =>
           result = Failed("get race analysis", loc["qualifying"])
      /\ QualifyingLacksMRData =>
           /\ result.kind = "block" => result.shown.qualifying = None
           /\ result = AnalysisGiven(None)
           /\ \A q \in ToolEnvelopes(call, "qualifying") :
                AnalysisGiven(q).kind = "block" =>
                  result = [AnalysisGiven(q) EXCEPT !.shown.qualifying = None]

\* the results arrived with a race that the handler can render, the qualifying
\* fetch failed, and the handler returns the failure
C30_Witness ==
    /\ AnalysisDone
    /\ ~IsExc(loc["results"])
    /\ AnalysisGiven(None).kind = "block"
    /\ AnalysisGiven(None).shown.rows # None
    /\ IsExc(loc["qualifying"])
    /\ Len(requests) = 2
    /\ result.kind = "failed"

\* the results envelope has no MRData and the qualifying fetch was made all the same
C30_WitnessNoEarlyReturn ==
    /\ AnalysisDone
    /\ loc["results"] = EmptyDict
    /\ Len(requests) = 2
    /\ result = Fixed("get_race_analysis", "No race data found for {year} round {round_num}.")

\* the qualifying envelope has no MRData: the race is rendered without the block,
\* which a full envelope would have added
C30_WitnessBlockOmitted ==
    /\ AnalysisDone
    /\ QualifyingLacksMRData
    /\ loc["qualifying"] = JDict("Other" :> JNull)
    /\ result.kind = "block"
    /\ result.shown.rows # None
    /\ result.shown.qualifying = None
    /\ \E q \in ToolEnvelopes(call, "qualifying") :
         /\ AnalysisGiven(q).kind = "block"
         /\ AnalysisGiven(q).shown.qualifying # None

(***************************************************************************)
(* Claims about the start of the server (SpecServer)                       *)
(***************************************************************************)
\* the ten register functions register_all_tools calls, in its order
TenGroups ==
    <<"register_basic_tools", "register_race_tools", "register_standings_tools",
      "register_driver_tools", "register_analysis_tools", "register_historical_tools",
      "register_data_tools", "register_racing_tools", "register_status_tools",
      "register_trivia_tools">>

\* create_mcp_server was called and has returned
ServerReturned == pc \in {"returned", "passed", "serving"}

\* create_mcp_server was called and has not returned yet
ServerInCreation == pc \in {TenGroups[k] : k \in DOMAIN TenGroups} \cup {"registered"}

\* C21: create_mcp_server completes without error and returns a server object
\* that is not None, is named 'Formula 1 MCP Server', and has had all ten tool
\* groups registered on it by register_all_tools before it is returned.
C21_ServerCreatedWithTenGroups ==
    /\ ServerReturned =>
         /\ agg # AggIdle /\ agg # None
         /\ agg.name = "Formula 1 MCP Server"
         /\ [k \in DOMAIN found |-> found[k].register] = TenGroups
         /\ \A k \in DOMAIN found : found[k].tools # <<>>
    /\ pc = "returned" => result = agg
    /\ ServerInCreation =>
         /\ ~IsExc(result)
         /\ \A k \in DOMAIN found : found[k].register = TenGroups[k]
    /\ pc = "exited" => (agg = AggIdle /\ found = <<>>)

\* the test has called create_mcp_server and its assertions passed
C21_Witness ==
    /\ call.fn = "test_server_creation"
    /\ pc = "passed"
    /\ Len(found) = 10
    /\ result.name = "Formula 1 MCP Server"

\* the secrets the process was started with
SecretsSet == call.environ.AUTH_TOKEN # None /\ call.environ.MY_NUMBER # None

\* the error of the validate tool
NumberNotSet == Raise("ValueError", "MY_NUMBER environment variable must be set")

\* C22: configuration is validated once at startup and a missing secret is a
\* fatal startup error, not a per-request error: in every state in which a tool
\* invocation is being served both AUTH_TOKEN and MY_NUMBER are set, so the
\* 'validate' tool always returns MY_NUMBER and its 'MY_NUMBER environment
\* variable must be set' error is never raised.
C22_SecretsValidatedAtStartup ==
    /\ result # NumberNotSet
    /\ pc \notin {"start", "exited"} =>
         /\ SecretsSet
         /\ loc.TOKEN = call.environ.AUTH_TOKEN
         /\ loc.MY_NUMBER = call.environ.MY_NUMBER
    /\ ~SecretsSet => (pc \in {"start", "exited"} /\ requests = <<>> /\ agg = AggIdle)
    /\ (pc = "exited" /\ ~SecretsSet /\ call.environ.MCP_SERVER_PORT # S("http")) =>
         /\ IsExc(result)
         /\ result.cls = "AssertionError"
    /\ (pc = "serving" /\ requests # <<>> /\ requests[Len(requests)] = "validate") =>
         result = call.environ.MY_NUMBER

\* the server has served validate, which returned the number of the environment
C22_Witness ==
    /\ pc = "serving"
    /\ requests # <<>>
    /\ requests[Len(requests)] = "validate"
    /\ result = S("919876543210")
    /\ result = loc.MY_NUMBER

\* MY_NUMBER is not set, AUTH_TOKEN is: the import failed and nothing was served
C22_WitnessFatal ==
    /\ pc = "exited"
    /\ call.environ.AUTH_TOKEN # None
    /\ call.environ.MY_NUMBER = None
    /\ result = Raise("AssertionError", "Please set MY_NUMBER in your .env file")
    /\ requests = <<>>

====
